---- MODULE Spec2Model ----
(***************************************************************************)
(* A model of the IONEX library: the record codec (parse_record and        *)
(* Record::format), the merge operations of Header, Record and IONEX, and  *)
(* the regional reduction built on the map cell iterator.                  *)
(*                                                                         *)
(* Coordinates are whole degrees (every axis of the model has an integer   *)
(* spacing, so Quantized::find_exponent is 0 on them and a Quantized       *)
(* coordinate is its real value).  Quantized compares by real value        *)
(* (quantized.rs:24-42), so a record key is modelled by the real values of *)
(* its coordinates.  A TEC keeps its (value, exponent) pair and is         *)
(* compared the way the derived PartialEq of TEC compares it: through      *)
(* Quantized::eq, on the decoded value.                                    *)
(***************************************************************************)
EXTENDS Integers, Sequences, FiniteSets, TLC

VARIABLES
    header,     \* codec: the Header the body is parsed and formatted with
    gen,        \* codec: position of the input file in the IONEX body layout
    ps,         \* codec: the local variables of parse_record
    trail,      \* codec: history of the tokens read (ghost, for the claims)
    fs,         \* codec: the local variables of Record::format
    out,        \* codec: the lines Record::format has written
    reparsed,   \* codec: result of parsing the lines of out again
    hc,         \* header codec: comments formatted by Header::format and parsed back
    ce,         \* cell engine: the cells, the point and the epoch of an interpolation or of a 3x3 construction
    ax,         \* axis: a Linspace under construction or iteration
    mg,         \* merge: the operands and the result of the last merge
    rg          \* regional reduction: the file, the region and the result

vars == <<header, gen, ps, trail, fs, out, reparsed, hc, ce, ax, mg, rg>>

codecVars == <<header, gen, ps, trail, fs, out, reparsed>>

(***************************************************************************)
(* Bounds of the model.                                                    *)
(***************************************************************************)
MaxMaps == 2        \* blocks (START OF ... MAP) in an input file
MaxExtraTokens == 1 \* tokens a row may carry beyond the row length
MaxExponentLines == 1 \* EXPONENT lines in the body of an input file
MaxFormatRows == 3  \* latitude rows Record::format is followed for, per map
MaxRowTokens == 4   \* tokens Record::format is followed for, per row

(***************************************************************************)
(* Quantized (quantized.rs) and TEC (tec.rs).                              *)
(***************************************************************************)
RECURSIVE Pow10(_)
Pow10(n) == IF n <= 0 THEN 1 ELSE 10 * Pow10(n - 1)

Min2(a, b) == IF a <= b THEN a ELSE b

\* Quantized::real_value is value / 10^exponent; two of them are equal when
\* the cross products agree (exponents may be negative).
QuantizedEq(a, b) ==
    LET m == Min2(a.exponent, b.exponent)
    IN  a.value * Pow10(b.exponent - m) = b.value * Pow10(a.exponent - m)

\* Option<Quantized> is a set with at most one element.
OptionEq(a, b) ==
    /\ (a = {}) <=> (b = {})
    /\ \A x \in a : \A y \in b : QuantizedEq(x, y)

\* derived PartialEq of TEC
TecEq(a, b) ==
    /\ QuantizedEq(a.tecu, b.tecu)
    /\ OptionEq(a.rms, b.rms)
    /\ OptionEq(a.height, b.height)

\* TEC::from_quantized
FromQuantized(tecu, exponent) ==
    [tecu |-> [value |-> tecu, exponent |-> -exponent], rms |-> {}, height |-> {}]

\* TEC::set_quantized_root_mean_square
SetQuantizedRms(tec, rms, exponent) ==
    [tec EXCEPT !.rms = {[value |-> rms, exponent |-> -exponent]}]

(***************************************************************************)
(* Record (record/mod.rs): a BTreeMap<Key, TEC>, here a function whose     *)
(* domain is the set of keys.                                              *)
(***************************************************************************)
EmptyRecord == <<>>

MkKey(epoch, lat, lon, alt) == [epoch |-> epoch, lat |-> lat, lon |-> lon, alt |-> alt]

RecordInsert(rec, key, tec) ==
    [k \in DOMAIN rec \cup {key} |-> IF k = key THEN tec ELSE rec[k]]

\* derived PartialEq of Record: same keys, equal TEC at every key
RecordEq(a, b) ==
    /\ DOMAIN a = DOMAIN b
    /\ \A k \in DOMAIN a : TecEq(a[k], b[k])

\* Record::epochs_iter: the distinct epochs in key (chronological) order
RECURSIVE SortedSeq(_)
SortedSeq(S) ==
    IF S = {} THEN <<>>
    ELSE LET m == CHOOSE x \in S : \A y \in S : x <= y
         IN  <<m>> \o SortedSeq(S \ {m})

EpochsIter(rec) == SortedSeq({k.epoch : k \in DOMAIN rec})

(***************************************************************************)
(* Linspace (linspace.rs) and GridSpecs (grid.rs).                         *)
(***************************************************************************)
Linspace(start, end, spacing) == [start |-> start, end |-> end, spacing |-> spacing]

\* f64 remainder of Rust: NaN when the divisor is 0 (never equal to 0.0),
\* otherwise the truncated remainder, whose being zero does not depend on signs.
RemIsZero(a, b) ==
    IF b = 0 THEN FALSE
    ELSE LET aa == IF a < 0 THEN -a ELSE a
             bb == IF b < 0 THEN -b ELSE b
         IN  aa % bb = 0

\* Linspace::new returns Ok
LinspaceNewOk(start, end, spacing) ==
    \/ start = end /\ spacing = 0
    \/ RemIsZero(end, start) /\ RemIsZero(end, spacing)

LinspaceMin(ls) == Min2(ls.start, ls.end)
LinspaceMax(ls) == IF ls.start >= ls.end THEN ls.start ELSE ls.end

DefaultGridSpecs ==
    [latitude_ddeg |-> 0, altitude_km |-> 0, longitude_space |-> Linspace(0, 0, 0)]

(***************************************************************************)
(* The lines of an IONEX body.  A line is its marker (kind) and what its   *)
(* content parses to; a line with no marker carries sample tokens.  A      *)
(* token is its text: an integer (ok, with value v) or a text that         *)
(* str::parse::<i64> rejects.                                              *)
(***************************************************************************)
IntToken(v) == [ok |-> TRUE, v |-> v]
BadToken == [ok |-> FALSE, v |-> 0]

MkLine(kind, num, specs, toks) == [kind |-> kind, num |-> num, specs |-> specs, toks |-> toks]

MarkerLine(kind) == MkLine(kind, 0, DefaultGridSpecs, <<>>)
NumLine(kind, n) == MkLine(kind, n, DefaultGridSpecs, <<>>)
GridLine(lat, lon, alt) ==
    MkLine("LAT/LON1/LON2/DLON/H", 0,
           [latitude_ddeg |-> lat, altitude_km |-> alt, longitude_space |-> lon], <<>>)
DataLine(toks) == MkLine("DATA", 0, DefaultGridSpecs, toks)

\* str::contains("9999") on the decimal text of an integer
RECURSIVE DigitsContain9999(_)
DigitsContain9999(n) ==
    /\ n >= 9999
    /\ (n % 10000 = 9999 \/ DigitsContain9999(n \div 10))

Contains9999(tok) ==
    /\ tok.ok
    /\ DigitsContain9999(IF tok.v < 0 THEN -tok.v ELSE tok.v)

(***************************************************************************)
(* parse_record (parsing.rs:17-274): its local variables and one step per  *)
(* line read.                                                              *)
(***************************************************************************)
ParserInit(hd) ==
    [exponent   |-> hd.exponent,
     epoch      |-> hd.epoch_of_first_map,
     grid_specs |-> DefaultGridSpecs,
     long_ptr   |-> 0,
     epoch_buf  |-> <<>>,
     record     |-> EmptyRecord,
     eos        |-> FALSE]

\* the key built at parsing.rs:160-168 (every exponent of the model's axes is 0)
CursorKey(p) ==
    MkKey(p.epoch, p.grid_specs.latitude_ddeg, p.long_ptr, p.grid_specs.altitude_km)

\* the same, but a token that is no integer leaves the cursor where it is
TecItemStall(p, st, tok) ==
    LET ptr == st[1]
        rec == st[2]
        spacing == p.grid_specs.longitude_space.spacing
    IN  IF Contains9999(tok) THEN <<ptr + spacing, rec>>
        ELSE IF ptr > p.grid_specs.longitude_space.end THEN st
        ELSE IF tok.ok
             THEN <<ptr + spacing,
                    RecordInsert(rec, CursorKey([p EXCEPT !.long_ptr = ptr]),
                                 FromQuantized(tok.v, p.exponent))>>
             ELSE st

\* one iteration of the loop of parsing.rs:141-187 ; st is <<long_ptr, record>>
TecItem(p, st, tok) ==
    LET ptr == st[1]
        rec == st[2]
        spacing == p.grid_specs.longitude_space.spacing
    IN  IF Contains9999(tok) THEN <<ptr + spacing, rec>>
        ELSE IF ptr > p.grid_specs.longitude_space.end THEN st
        ELSE IF tok.ok
             THEN <<ptr + spacing,
                    RecordInsert(rec, CursorKey([p EXCEPT !.long_ptr = ptr]),
                                 FromQuantized(tok.v, p.exponent))>>
             ELSE <<ptr + spacing, rec>>

\* the same, but an RMS token that finds no sample at its key inserts one
RmsItemInserting(p, st, tok) ==
    LET ptr == st[1]
        rec == st[2]
        spacing == p.grid_specs.longitude_space.spacing
        key == CursorKey([p EXCEPT !.long_ptr = ptr])
    IN  IF Contains9999(tok) THEN <<ptr + spacing, rec>>
        ELSE IF ptr > p.grid_specs.longitude_space.end THEN st
        ELSE IF tok.ok
             THEN <<ptr + spacing,
                    RecordInsert(rec, key,
                                 SetQuantizedRms(IF key \in DOMAIN rec THEN rec[key]
                                                 ELSE FromQuantized(0, p.exponent),
                                                 tok.v, p.exponent))>>
             ELSE <<ptr + spacing, rec>>

\* one iteration of the loop of parsing.rs:197-244
RmsItem(p, st, tok) ==
    LET ptr == st[1]
        rec == st[2]
        spacing == p.grid_specs.longitude_space.spacing
        key == CursorKey([p EXCEPT !.long_ptr = ptr])
    IN  IF Contains9999(tok) THEN <<ptr + spacing, rec>>
        ELSE IF ptr > p.grid_specs.longitude_space.end THEN st
        ELSE IF tok.ok /\ key \in DOMAIN rec
             THEN <<ptr + spacing,
                    [rec EXCEPT ![key] = SetQuantizedRms(rec[key], tok.v, p.exponent)]>>
             ELSE <<ptr + spacing, rec>>

RECURSIVE FlushTec(_, _, _)
FlushTec(p, st, toks) ==
    IF toks = <<>> THEN st
    ELSE FlushTec(p, TecItem(p, st, Head(toks)), Tail(toks))

RECURSIVE FlushRms(_, _, _)
FlushRms(p, st, toks) ==
    IF toks = <<>> THEN st
    ELSE FlushRms(p, RmsItem(p, st, Head(toks)), Tail(toks))

\* parsing.rs:65-79
OnExponent(p, line) == [p EXCEPT !.exponent = line.num]

\* parsing.rs:81-87
OnEpoch(p, line) == [p EXCEPT !.epoch = line.num]

\* parsing.rs:89-108
OnStartOfMap(p, line) == [p EXCEPT !.epoch_buf = <<>>]

\* parsing.rs:110-137 ; GridSpecs::from_str fails when Linspace::new does
OnGridSpecs(p, line) ==
    LET ls == line.specs.longitude_space
        parsed == LinspaceNewOk(ls.start, ls.end, ls.spacing)
    IN  [p EXCEPT !.grid_specs = IF parsed THEN line.specs ELSE @,
                  !.long_ptr = IF parsed THEN 0 ELSE @,
                  !.epoch_buf = <<>>]

\* parsing.rs:139-193
OnEndOfTecMap(p, line) ==
    LET st == FlushTec(p, <<p.long_ptr, p.record>>, p.epoch_buf)
    IN  [p EXCEPT !.long_ptr = st[1], !.record = st[2], !.epoch_buf = <<>>]

\* parsing.rs:195-250
OnEndOfRmsMap(p, line) ==
    LET st == FlushRms(p, <<p.long_ptr, p.record>>, p.epoch_buf)
    IN  [p EXCEPT !.long_ptr = st[1], !.record = st[2], !.epoch_buf = <<>>]

\* parsing.rs:252-258
OnEndOfHeightMap(p, line) == [p EXCEPT !.epoch_buf = <<>>]

\* parsing.rs:260-273 ; also the end of the stream (parsing.rs:47-50): the
\* loop is left and the record returned, the other locals are dropped
OnEndOfFile(p, line) ==
    [exponent   |-> 0,
     epoch      |-> 0,
     grid_specs |-> DefaultGridSpecs,
     long_ptr   |-> 0,
     epoch_buf  |-> <<>>,
     record     |-> p.record,
     eos        |-> TRUE]

\* parsing.rs:265-266
OnData(p, line) == [p EXCEPT !.epoch_buf = @ \o line.toks]

StartMarkers == {"START OF TEC MAP", "START OF RMS MAP", "START OF HEIGHT MAP"}

\* the body of the loop of parsing.rs:46-271
ParseLine(p, line) ==
    CASE line.kind = "EXPONENT" -> OnExponent(p, line)
      [] line.kind = "EPOCH OF CURRENT MAP" -> OnEpoch(p, line)
      [] line.kind \in StartMarkers -> OnStartOfMap(p, line)
      [] line.kind = "LAT/LON1/LON2/DLON/H" -> OnGridSpecs(p, line)
      [] line.kind = "END OF TEC MAP" -> OnEndOfTecMap(p, line)
      [] line.kind = "END OF RMS MAP" -> OnEndOfRmsMap(p, line)
      [] line.kind = "END OF HEIGHT MAP" -> OnEndOfHeightMap(p, line)
      [] line.kind = "END OF FILE" -> OnEndOfFile(p, line)
      [] OTHER -> OnData(p, line)

\* parse_record on a whole sequence of lines (stops at the END OF FILE line)
RECURSIVE ParseLines(_, _)
ParseLines(p, lines) ==
    IF lines = <<>> \/ p.eos THEN p
    ELSE ParseLines(ParseLine(p, Head(lines)), Tail(lines))

ParseRecord(hd, lines) == ParseLines(ParserInit(hd), lines).record

(***************************************************************************)
(* Record::format (record/formatting.rs:14-207): its local variables and   *)
(* one step per iteration of its loops.  A row of tokens is one DATA line  *)
(* (the line breaks every sixteen tokens do not change the tokens read     *)
(* back by split_ascii_whitespace).                                        *)
(***************************************************************************)
FormatIdle ==
    [phase |-> "idle", kind |-> "TEC", epochs |-> <<>>, latitude_ptr |-> 0,
     longitude_ptr |-> 0, has_rms |-> FALSE, rows |-> 0, row |-> <<>>]

\* record/formatting.rs:36 and 120
FormatStart(rec) ==
    [FormatIdle EXCEPT !.phase = "map", !.epochs = EpochsIter(rec)]

\* the key looked up at record/formatting.rs:74-80 (and 158-164)
FormatKey(hd, f) ==
    MkKey(Head(f.epochs), f.latitude_ptr, f.longitude_ptr, hd.grid.altitude.start)

\* record/formatting.rs:83-89
TecToken(rec, key) ==
    IF key \in DOMAIN rec THEN IntToken(rec[key].tecu.value) ELSE IntToken(9999)

\* record/formatting.rs:167-175
RmsToken(rec, key) ==
    IF key \in DOMAIN rec /\ rec[key].rms # {}
    THEN IntToken((CHOOSE q \in rec[key].rms : TRUE).value)
    ELSE IntToken(9999)

\* record/formatting.rs:37-49 (and 121-133)
FormatMapBegin(hd, f) ==
    [f EXCEPT !.phase = "lat", !.rows = 0,
              !.latitude_ptr = LinspaceMax(hd.grid.latitude)]

FormatMapBeginLines(f) ==
    << MarkerLine("START OF " \o f.kind \o " MAP"),
       NumLine("EPOCH OF CURRENT MAP", Head(f.epochs)) >>

\* record/formatting.rs:51-70 (and 135-154): the test of the latitude loop
LatitudeLoopRuns(hd, f) == f.latitude_ptr >= LinspaceMin(hd.grid.latitude)

FormatRowBegin(hd, f) ==
    [f EXCEPT !.phase = "lon", !.row = <<>>,
              !.longitude_ptr = LinspaceMin(hd.grid.longitude)]

FormatRowBeginLine(hd, f) ==
    GridLine(f.latitude_ptr, hd.grid.longitude, hd.grid.altitude.start)

\* record/formatting.rs:72 (and 156): the test of the longitude loop
LongitudeLoopRuns(hd, f) == f.longitude_ptr <= LinspaceMax(hd.grid.longitude)

\* record/formatting.rs:73-98 (and 157-184): one pass of the longitude loop
FormatToken(hd, rec, f) ==
    LET key == FormatKey(hd, f)
        tok == IF f.kind = "TEC" THEN TecToken(rec, key) ELSE RmsToken(rec, key)
    IN  [f EXCEPT !.row = Append(@, tok),
                  !.has_rms = @ \/ (f.kind = "TEC" /\ key \in DOMAIN rec /\ rec[key].rms # {}),
                  !.longitude_ptr = @ + hd.grid.longitude.spacing]

\* record/formatting.rs:101-106 (and 187-192)
FormatRowEnd(hd, f) ==
    [f EXCEPT !.phase = "lat", !.rows = @ + 1, !.row = <<>>,
              !.latitude_ptr = @ + hd.grid.latitude.spacing]

\* record/formatting.rs:109-119 (and 195-204): what follows the end of a map
FormatMapEnd(rec, f) ==
    IF Len(f.epochs) > 1 THEN [f EXCEPT !.phase = "map", !.epochs = Tail(@)]
    ELSE IF f.kind = "TEC" /\ f.has_rms
         THEN [f EXCEPT !.phase = "map", !.kind = "RMS", !.epochs = EpochsIter(rec)]
         ELSE [f EXCEPT !.phase = "eof", !.epochs = <<>>]

FormatMapEndLine(f) == MarkerLine("END OF " \o f.kind \o " MAP")

(***************************************************************************)
(* The codec specification: a Header, an input body read line by line by   *)
(* parse_record, then Record::format of the parsed record and a second     *)
(* parse of what was written.                                              *)
(***************************************************************************)
MkHeader(lat, lon, alt, exponent) ==
    [exponent |-> exponent, epoch_of_first_map |-> 1,
     grid |-> [latitude |-> lat, longitude |-> lon, altitude |-> alt]]

\* latitude from north to south (as in the IGS products), and from south to north
Headers ==
    { MkHeader(Linspace(1, -1, -2), Linspace(-1, 1, 1), Linspace(3, 3, 0), -1),
      MkHeader(Linspace(-1, 1, 2), Linspace(-1, 1, 1), Linspace(3, 3, 0), -1) }

Epochs == {1, 2}
Exponents == {-1, 0}
Tokens == {IntToken(7), IntToken(9999), IntToken(19999), BadToken}
MapKinds == {"TEC", "RMS", "HEIGHT"}

\* number of points of an axis, and its i-th point
AxisLen(ls) == IF ls.spacing = 0 THEN 1 ELSE ((ls.end - ls.start) \div ls.spacing) + 1
AxisPoint(ls, i) == ls.start + i * ls.spacing

RowLen == AxisLen(header.grid.longitude)
NumRows == AxisLen(header.grid.latitude)

GenInit == [phase |-> "body", kind |-> "TEC", row |-> 0, ntok |-> 0, maps |-> 0, exps |-> 0]

NoTrail == [read_exp |-> <<>>, flushed |-> <<>>]

\* what one token of a flush did: the cursor key it met, and the record
\* before and after it
RECURSIVE FlushLog(_, _, _, _, _)
FlushLog(p, kind, st, toks, exps) ==
    IF toks = <<>> THEN <<>>
    ELSE LET nx == IF kind = "TEC" THEN TecItem(p, st, Head(toks))
                   ELSE RmsItem(p, st, Head(toks))
             key == CursorKey([p EXCEPT !.long_ptr = st[1]])
             entry == [tok |-> Head(toks),
                       kind |-> kind,
                       read_exp |-> Head(exps),
                       key |-> key,
                       in_range |-> /\ st[1] >= p.grid_specs.longitude_space.start
                                    /\ st[1] <= p.grid_specs.longitude_space.end,
                       advanced |-> nx[1] - st[1],
                       unchanged |-> nx[2] = st[2],
                       stored |-> IF key \in DOMAIN nx[2] THEN {nx[2][key]} ELSE {}]
         IN  <<entry>> \o FlushLog(p, kind, nx, Tail(toks), Tail(exps))

TrailAfter(p, line) ==
    LET q == ParseLine(p, line)
    IN  [read_exp |->
            IF line.kind = "DATA" THEN trail.read_exp \o [i \in 1..Len(line.toks) |-> p.exponent]
            ELSE IF q.epoch_buf = <<>> THEN <<>> ELSE trail.read_exp,
         flushed |->
            IF line.kind = "END OF TEC MAP"
            THEN FlushLog(p, "TEC", <<p.long_ptr, p.record>>, p.epoch_buf, trail.read_exp)
            ELSE IF line.kind = "END OF RMS MAP"
            THEN FlushLog(p, "RMS", <<p.long_ptr, p.record>>, p.epoch_buf, trail.read_exp)
            ELSE <<>>]

Reading == fs.phase = "idle" /\ ~ps.eos

RowComplete == gen.row = NumRows /\ gen.ntok >= RowLen

\* parse_record reads the line: one pass of the loop of parsing.rs:46-271
Read(line, g) ==
    /\ Reading
    /\ ps' = ParseLine(ps, line)
    /\ trail' = TrailAfter(ps, line)
    /\ gen' = g
    /\ UNCHANGED <<header, fs, out, reparsed, hc, mg, rg, ce, ax>>

ReadStartOfMap ==
    /\ gen.phase = "body"
    /\ gen.maps < MaxMaps
    /\ \E kind \in MapKinds :
          Read(MarkerLine("START OF " \o kind \o " MAP"),
               [gen EXCEPT !.phase = "opened", !.kind = kind, !.maps = @ + 1])

ReadEpoch ==
    /\ gen.phase = "opened"
    /\ \E t \in Epochs :
          Read(NumLine("EPOCH OF CURRENT MAP", t),
               [gen EXCEPT !.phase = "rows", !.row = 0, !.ntok = 0])

ReadExponent ==
    /\ gen.phase = "rows"
    /\ gen.exps < MaxExponentLines
    /\ \E e \in Exponents :
          Read(NumLine("EXPONENT", e), [gen EXCEPT !.exps = @ + 1])

ReadGridSpecs ==
    /\ gen.phase = "rows"
    /\ gen.row < NumRows
    /\ gen.row = 0 \/ gen.ntok >= RowLen
    /\ Read(GridLine(AxisPoint(header.grid.latitude, gen.row), header.grid.longitude,
                     header.grid.altitude.start),
            [gen EXCEPT !.row = @ + 1, !.ntok = 0])

ReadData ==
    /\ gen.phase = "rows"
    /\ gen.row >= 1
    /\ gen.ntok < RowLen + MaxExtraTokens
    /\ \E tok \in Tokens :
          Read(DataLine(<<tok>>), [gen EXCEPT !.ntok = @ + 1])

ReadEndOfMap ==
    /\ gen.phase = "rows"
    /\ RowComplete
    /\ Read(MarkerLine("END OF " \o gen.kind \o " MAP"), [gen EXCEPT !.phase = "body"])

ReadEndOfFile ==
    /\ gen.phase = "body" \/ (gen.phase = "rows" /\ RowComplete)
    /\ Read(MarkerLine("END OF FILE"), [GenInit EXCEPT !.phase = "done"])

\* Record::format on the parsed record
Write(f, lines) ==
    /\ fs' = f
    /\ out' = out \o lines
    /\ UNCHANGED <<header, gen, ps, trail, reparsed, hc, mg, rg, ce, ax>>

FormatBegin ==
    /\ ps.eos
    /\ fs.phase = "idle"
    /\ LET f == FormatStart(ps.record)
       IN  Write(IF f.epochs = <<>> THEN [f EXCEPT !.phase = "eof"] ELSE f, <<>>)

FormatMap ==
    /\ fs.phase = "map"
    /\ Write(FormatMapBegin(header, fs), FormatMapBeginLines(fs))

FormatRow ==
    /\ fs.phase = "lat"
    /\ LatitudeLoopRuns(header, fs)
    /\ fs.rows < MaxFormatRows
    /\ Write(FormatRowBegin(header, fs), <<FormatRowBeginLine(header, fs)>>)

FormatSample ==
    /\ fs.phase = "lon"
    /\ LongitudeLoopRuns(header, fs)
    /\ Len(fs.row) < MaxRowTokens
    /\ Write(FormatToken(header, ps.record, fs), <<>>)

FormatEndOfRow ==
    /\ fs.phase = "lon"
    /\ ~LongitudeLoopRuns(header, fs)
    /\ Write(FormatRowEnd(header, fs), <<DataLine(fs.row)>>)

FormatEndOfMap ==
    /\ fs.phase = "lat"
    /\ ~LatitudeLoopRuns(header, fs)
    /\ Write(FormatMapEnd(ps.record, fs), <<FormatMapEndLine(fs)>>)

FormatEndOfFile ==
    /\ fs.phase = "eof"
    /\ Write([fs EXCEPT !.phase = "done"], <<MarkerLine("END OF FILE")>>)

\* IONEX::parse on the formatted file (the header fields parse_record reads
\* are the ones Header::format has written)
Reparse ==
    /\ fs.phase = "done"
    /\ fs' = [fs EXCEPT !.phase = "reparsed"]
    /\ reparsed' = ParseRecord(header, out)
    /\ UNCHANGED <<header, gen, ps, trail, out, hc, mg, rg, ce, ax>>

NoHeaderCodec == [phase |-> "none"]
NoMerge == [phase |-> "none"]
NoRegion == [phase |-> "none"]
NoCell == [phase |-> "none"]
NoAxis == [phase |-> "none"]

Init ==
    /\ header \in Headers
    /\ gen = GenInit
    /\ ps = ParserInit(header)
    /\ trail = NoTrail
    /\ fs = FormatIdle
    /\ out = <<>>
    /\ reparsed = EmptyRecord
    /\ hc = NoHeaderCodec
    /\ mg = NoMerge
    /\ rg = NoRegion
    /\ ce = NoCell
    /\ ax = NoAxis

Next ==
    \/ ReadStartOfMap
    \/ ReadEpoch
    \/ ReadExponent
    \/ ReadGridSpecs
    \/ ReadData
    \/ ReadEndOfMap
    \/ ReadEndOfFile
    \/ FormatBegin
    \/ FormatMap
    \/ FormatRow
    \/ FormatSample
    \/ FormatEndOfRow
    \/ FormatEndOfMap
    \/ FormatEndOfFile
    \/ Reparse

Spec == Init /\ [][Next]_vars

(***************************************************************************)
(* What Record::format has written, read as rows: a LAT/LON1/LON2/DLON/H   *)
(* line and the DATA line after it, with the map (kind and epoch) they     *)
(* belong to.                                                              *)
(***************************************************************************)
LastIndex(i, kinds) ==
    LET S == {j \in 1..i : out[j].kind \in kinds} IN
    IF S = {} THEN 0 ELSE CHOOSE j \in S : \A k \in S : k <= j

RowsWritten ==
    { [at |-> i,
       kind |-> out[LastIndex(i, StartMarkers)].kind,
       epoch |-> out[LastIndex(i, {"EPOCH OF CURRENT MAP"})].num,
       lat |-> out[i].specs.latitude_ddeg,
       toks |-> IF i < Len(out) /\ out[i + 1].kind = "DATA" THEN out[i + 1].toks ELSE <<>>]
      : i \in {j \in 1..Len(out) : out[j].kind = "LAT/LON1/LON2/DLON/H"} }

AxisPoints(ls) == {AxisPoint(ls, i) : i \in 0..(AxisLen(ls) - 1)}

FormatReturned == fs.phase \in {"done", "reparsed"}

\* the tokens of the grid row (epoch, lat): the stored integer of each sample, 9999 where none
GridRowTokens(epoch, lat) ==
    [i \in 1..RowLen |->
        TecToken(ps.record, MkKey(epoch, lat, AxisPoint(header.grid.longitude, i - 1),
                                  header.grid.altitude.start))]

(***************************************************************************)
(* Claims on the codec.                                                    *)
(***************************************************************************)

\* C1: for every IONEX X returned by IONEX::parse, parsing again what IONEX::format
\* writes for X yields a record equal to X.record (same keys, same TEC and RMS
\* at every key).
C1_RoundTrip == fs.phase = "reparsed" => RecordEq(reparsed, ps.record)

\* C2: in the flush of a TEC block, a token the cursor meets inside the row's
\* longitude range leaves the record as it is exactly when it is the sentinel
\* 9999 (the cursor still moves on by one spacing); every other integer token v
\* is stored at the cursor's key with TECu = v * 10^exponent, for the exponent
\* in force.
C2_SentinelOnly ==
    \A i \in 1..Len(trail.flushed) :
        LET e == trail.flushed[i] IN
        (e.kind = "TEC" /\ e.tok.ok /\ e.in_range) =>
            IF e.tok.v = 9999
            THEN e.unchanged /\ e.advanced = header.grid.longitude.spacing
            ELSE /\ e.stored # {}
                 /\ \A t \in e.stored : TecEq(t, FromQuantized(e.tok.v, ps.exponent))

\* C3: Record::format writes, for every epoch of the record and every (latitude,
\* longitude) point of the header grid, exactly one token at that point's
\* position in the scan: the stored integer of the sample when the record holds
\* one at that key, 9999 when it does not.  Every row written is therefore the
\* row of one latitude of the grid, written once per map, and when format
\* returns every latitude of the grid has its row in every TEC map.
C3_OneTokenPerGridPoint ==
    /\ \A r \in RowsWritten :
          /\ r.lat \in AxisPoints(header.grid.latitude)
          /\ \A q \in RowsWritten :
                (q.kind = r.kind /\ q.epoch = r.epoch /\ q.lat = r.lat) => q.at = r.at
    /\ FormatReturned =>
          \A epoch \in {k.epoch : k \in DOMAIN ps.record} :
          \A lat \in AxisPoints(header.grid.latitude) :
              \E r \in RowsWritten :
                 /\ r.kind = "START OF TEC MAP"
                 /\ r.epoch = epoch
                 /\ r.lat = lat
                 /\ r.toks = GridRowTokens(epoch, lat)

\* C4: an EXPONENT line changes the decoding of only the tokens that follow it:
\* every sample stored from a token is decoded with the exponent that was in
\* force when the token was read (the latest EXPONENT line before it, or else
\* the exponent of the header).
C4_ExponentOfItsToken ==
    \A i \in 1..Len(trail.flushed) :
        LET e == trail.flushed[i] IN
        (e.kind = "TEC" /\ e.tok.ok /\ ~Contains9999(e.tok) /\ e.in_range) =>
            \A t \in e.stored : TecEq(t, FromQuantized(e.tok.v, e.read_exp))

(***************************************************************************)
(* The header codec, for its comments: Header::format                      *)
(* (header/formatting.rs) writes one line per comment through fmt_ionex    *)
(* (lib.rs), and Header::parse (header/parsing.rs) reads the lines back.   *)
(* A text is the sequence of its characters; a line is its first 60        *)
(* characters (content) and what follows them (marker), which is where     *)
(* Header::parse splits it.                                                *)
(***************************************************************************)
MaxComments == 2

\* lib.rs:143: the width of the content of a line
LineWidth == 60

Blanks(n) == [i \in 1..n |-> " "]
Fill(c, n) == [i \in 1..n |-> c]

\* format!("{:<60}", chunk)
Pad(chunk) == IF Len(chunk) < LineWidth THEN chunk \o Blanks(LineWidth - Len(chunk)) ELSE chunk

DivCeil(a, b) == (a + b - 1) \div b

HeaderLine(content, marker) == [content |-> content, marker |-> marker]

\* lib.rs:142-161; the lines of the returned string
FmtIonex(content, marker) ==
    IF Len(content) < LineWidth
    THEN << HeaderLine(Pad(content), marker) >>
    ELSE [i \in 1..DivCeil(Len(content), LineWidth) |->
            HeaderLine(Pad(SubSeq(content, (i - 1) * LineWidth + 1,
                                  Min2(i * LineWidth, Len(content)))), marker)]

\* str::trim
RECURSIVE TrimStart(_)
TrimStart(s) == IF s # <<>> /\ Head(s) = " " THEN TrimStart(Tail(s)) ELSE s

RECURSIVE TrimEnd(_)
TrimEnd(s) ==
    IF s # <<>> /\ s[Len(s)] = " " THEN TrimEnd(SubSeq(s, 1, Len(s) - 1)) ELSE s

Trim(s) == TrimEnd(TrimStart(s))

\* header/formatting.rs:147-152, the line written before the comments
ExponentLine(exponent) ==
    HeaderLine(Pad(Blanks(4) \o (IF exponent < 0 THEN <<"-">> ELSE <<" ">>) \o <<"1">>),
               "EXPONENT")

\* header/formatting.rs:155-157, one turn of the loop
CommentLines(comment) == FmtIonex(comment, "COMMENTS")

\* header/formatting.rs:159
EndOfHeaderLine == HeaderLine(Pad(<<>>), "END OF HEADER")

\* header/parsing.rs:23-36, one turn of the loop on one line: the comments
\* after it, and whether the loop goes on.  The markers written by
\* Header::format carry no blank at either end, so marker.trim() is the marker.
ParseHeaderLine(comments, line) ==
    IF Len(line.content) < LineWidth
    THEN [comments |-> comments, more |-> TRUE]
    ELSE IF line.marker = "END OF HEADER"
    THEN [comments |-> comments, more |-> FALSE]
    ELSE IF line.marker = "COMMENT"
    THEN [comments |-> Append(comments, Trim(line.content)), more |-> TRUE]
    ELSE [comments |-> comments, more |-> TRUE]

CommentTexts ==
    { <<"a">>, <<"b", " ", "c">>, <<" ", "a">>, Fill("a", LineWidth), Fill("b", LineWidth + 1) }

CommentLists ==
    UNION { [1..n -> CommentTexts] : n \in 0..MaxComments }

HeaderCodecInit(comments) ==
    [phase |-> "format", comments |-> comments, next |-> 1,
     lines |-> << ExponentLine(-1) >>, read |-> 0, parsed |-> <<>>]

HeaderFormatComment ==
    /\ hc.phase = "format"
    /\ hc.next <= Len(hc.comments)
    /\ hc' = [hc EXCEPT !.lines = @ \o CommentLines(hc.comments[hc.next]),
                        !.next = @ + 1]
    /\ UNCHANGED <<codecVars, mg, rg, ce, ax>>

HeaderFormatEnd ==
    /\ hc.phase = "format"
    /\ hc.next > Len(hc.comments)
    /\ hc' = [hc EXCEPT !.lines = Append(@, EndOfHeaderLine), !.phase = "parse"]
    /\ UNCHANGED <<codecVars, mg, rg, ce, ax>>

HeaderParseLine ==
    /\ hc.phase = "parse"
    /\ hc.read < Len(hc.lines)
    /\ LET r == ParseHeaderLine(hc.parsed, hc.lines[hc.read + 1]) IN
       hc' = [hc EXCEPT !.parsed = r.comments,
                        !.read = @ + 1,
                        !.phase = IF r.more THEN "parse" ELSE "parsed"]
    /\ UNCHANGED <<codecVars, mg, rg, ce, ax>>

\* the body codec at rest
CodecIdle ==
    /\ header = MkHeader(Linspace(1, -1, -2), Linspace(-1, 1, 1), Linspace(3, 3, 0), -1)
    /\ gen = GenInit
    /\ ps = ParserInit(header)
    /\ trail = NoTrail
    /\ fs = FormatIdle
    /\ out = <<>>
    /\ reparsed = EmptyRecord

InitHeader ==
    /\ CodecIdle
    /\ \E comments \in CommentLists : hc = HeaderCodecInit(comments)
    /\ mg = NoMerge
    /\ rg = NoRegion
    /\ ce = NoCell
    /\ ax = NoAxis

NextHeader ==
    \/ HeaderFormatComment
    \/ HeaderFormatEnd
    \/ HeaderParseLine

SpecHeader == InitHeader /\ [][NextHeader]_vars

\* C5: after Header::format followed by Header::parse on the lines it wrote,
\* the comments of the parsed header are the comments of the formatted header:
\* the same texts in the same order.
C5_CommentsRoundTrip == hc.phase = "parsed" => hc.parsed = hc.comments

(***************************************************************************)
(* Merge (feature qc): Header::merge_mut (header/qc.rs), Record::merge_mut *)
(* (record/qc.rs) and IONEX::merge_mut (lib.rs).  A text (a comment, a     *)
(* description) is the sequence of its words.  The header is its fields    *)
(* that merge_mut reads or assigns.  The files have no filename            *)
(* attributes (IONEX::new, IONEX::parse).                                  *)
(***************************************************************************)
MaxMerges == 2

\* header/qc.rs:89
FileMerge == <<"FILE", "MERGE">>

\* str::contains
TextContains(text, pat) ==
    \E i \in 0..(Len(text) - Len(pat)) : SubSeq(text, i + 1, i + Len(pat)) = pat

\* Vec::contains
VecContains(v, x) == \E i \in 1..Len(v) : v[i] = x

\* header/qc.rs:82-86 and lib.rs:1319-1323
RECURSIVE PushNewComments(_, _)
PushNewComments(comments, rhs) ==
    IF rhs = <<>> THEN comments
    ELSE PushNewComments(IF VecContains(comments, Head(rhs))
                         THEN comments
                         ELSE Append(comments, Head(rhs)),
                         Tail(rhs))

\* header/qc.rs:89-93, with the comment pushed whether or not it is there already
PushMergeCommentAlways(comments) == Append(comments, FileMerge)

\* header/qc.rs:89-93
PushMergeComment(comments) ==
    IF VecContains(comments, FileMerge) THEN comments ELSE Append(comments, FileMerge)

\* header/qc.rs:15-43: an Option that is None takes the value of rhs
FillOption(lhs, rhs) == IF lhs = {} THEN rhs ELSE lhs

\* header/qc.rs:45-56
MergeDescription(lhs, rhs) ==
    IF lhs # {}
    THEN IF rhs # {} THEN {d \o r : d \in lhs, r \in rhs} ELSE lhs
    ELSE rhs

Max2(a, b) == IF a >= b THEN a ELSE b

\* header/qc.rs:62-72: whether merge_mut returns an error for operands that
\* do not match; the three comparisons have empty bodies
MismatchError(lhs, rhs) ==
    IF \/ lhs.reference_system # rhs.reference_system
       \/ lhs.mapf # rhs.mapf
       \/ lhs.map_dimension # rhs.map_dimension
    THEN FALSE
    ELSE FALSE

\* header/qc.rs:12-96
HeaderMergeMut(lhs, rhs) ==
    [ok |-> ~MismatchError(lhs, rhs),
     header |->
        [version            |-> Min2(lhs.version, rhs.version),
         program            |-> FillOption(lhs.program, rhs.program),
         run_by             |-> FillOption(lhs.run_by, rhs.run_by),
         date               |-> FillOption(lhs.date, rhs.date),
         license            |-> FillOption(lhs.license, rhs.license),
         doi                |-> FillOption(lhs.doi, rhs.doi),
         description        |-> MergeDescription(lhs.description, rhs.description),
         epoch_of_first_map |-> Min2(lhs.epoch_of_first_map, rhs.epoch_of_first_map),
         epoch_of_last_map  |-> Max2(lhs.epoch_of_last_map, rhs.epoch_of_last_map),
         reference_system   |-> lhs.reference_system,
         mapf               |-> lhs.mapf,
         map_dimension      |-> lhs.map_dimension,
         sampling_period    |-> Min2(lhs.sampling_period, rhs.sampling_period),
         elevation_cutoff   |-> IF rhs.elevation_cutoff > lhs.elevation_cutoff
                                THEN rhs.elevation_cutoff ELSE lhs.elevation_cutoff,
         comments           |-> PushMergeComment(PushNewComments(lhs.comments, rhs.comments))]]

\* record/qc.rs:14-23, with the RMS and the height of rhs taking the place of those of lhs
MergeSampleOverwrite(lhs_v, rhs_v) ==
    [lhs_v EXCEPT !.rms = IF rhs_v.rms # {} THEN rhs_v.rms ELSE @,
                  !.height = IF rhs_v.height # {} THEN rhs_v.height ELSE @]

\* record/qc.rs:14-23
MergeSample(lhs_v, rhs_v) ==
    [lhs_v EXCEPT !.rms = IF rhs_v.rms # {} /\ lhs_v.rms = {} THEN rhs_v.rms ELSE @,
                  !.height = IF rhs_v.height # {} /\ lhs_v.height = {} THEN rhs_v.height ELSE @]

\* record/qc.rs:11-30
RecordMergeMut(lhs, rhs) ==
    [k \in DOMAIN lhs \cup DOMAIN rhs |->
        IF k \in DOMAIN rhs
        THEN IF k \in DOMAIN lhs THEN MergeSample(lhs[k], rhs[k]) ELSE rhs[k]
        ELSE lhs[k]]

\* lib.rs:1301-1326; an error of the header leaves the other fields as they were
IonexMergeMut(lhs, rhs) ==
    LET h == HeaderMergeMut(lhs.header, rhs.header) IN
    IF ~h.ok
    THEN [ok |-> FALSE, file |-> [lhs EXCEPT !.header = h.header]]
    ELSE [ok |-> TRUE,
          file |-> [header     |-> h.header,
                    record     |-> RecordMergeMut(lhs.record, rhs.record),
                    comments   |-> PushNewComments(lhs.comments, rhs.comments),
                    attributes |-> FillOption(lhs.attributes, rhs.attributes)]]

\* lib.rs:1295-1299: merge works on a clone, which is returned when merge_mut succeeds
IonexMerge(lhs, rhs) ==
    LET r == IonexMergeMut(lhs, rhs) IN
    [ok |-> r.ok, file |-> IF r.ok THEN r.file ELSE lhs]

\* lib.rs:551-558
IsMerged(file) ==
    \E i \in 1..Len(file.header.comments) : TextContains(file.header.comments[i], FileMerge)

(***************************************************************************)
(* The files that are merged, and the merges: a file is merged with        *)
(* another file or with itself, and the result is merged again.            *)
(***************************************************************************)
MkMergeHeader(version, who, first, last, refsys, mapf, dim, sampling, cutoff, description, comments) ==
    [version            |-> version,
     program            |-> who,
     run_by             |-> who,
     date               |-> {},
     license            |-> who,
     doi                |-> {},
     description        |-> description,
     epoch_of_first_map |-> first,
     epoch_of_last_map  |-> last,
     reference_system   |-> refsys,
     mapf               |-> mapf,
     map_dimension      |-> dim,
     sampling_period    |-> sampling,
     elevation_cutoff   |-> cutoff,
     comments           |-> comments]

\* a header, and headers that differ from it in the reference system, in the
\* mapping function, in the map dimension
HeaderBases ==
    { <<1, {}, 1, 2, "GPS", "CosZ", 2, 2, 0>>,
      <<2, {<<"igs">>}, 0, 3, "GLO", "CosZ", 2, 1, 1>>,
      <<1, {}, 1, 2, "GPS", "QFactor", 2, 2, 0>>,
      <<1, {}, 1, 2, "GPS", "CosZ", 3, 2, 0>> }

Descriptions == { {}, {<<"d">>} }

MergeComments ==
    { <<>>,
      << <<"a">> >>,
      << <<"a">>, FileMerge >>,
      << <<"a", "FILE", "MERGE">> >>,
      << FileMerge, FileMerge >> }

MergeHeaders ==
    { MkMergeHeader(b[1], b[2], b[3], b[4], b[5], b[6], b[7], b[8], b[9], d, c) :
        b \in HeaderBases, d \in Descriptions, c \in MergeComments }

MergeKey1 == MkKey(1, 1, -1, 3)
MergeKey2 == MkKey(2, 1, -1, 3)

SampleTecOnly == FromQuantized(1, -1)
SampleFull == [SetQuantizedRms(FromQuantized(2, -1), 5, -1) EXCEPT !.height = {[value |-> 4, exponent |-> 0]}]
SampleRms == SetQuantizedRms(FromQuantized(3, 0), 6, -1)

MergeRecords ==
    { EmptyRecord,
      RecordInsert(EmptyRecord, MergeKey1, SampleTecOnly),
      RecordInsert(EmptyRecord, MergeKey1, SampleFull),
      RecordInsert(EmptyRecord, MergeKey1, SampleRms),
      RecordInsert(EmptyRecord, MergeKey2, SampleFull),
      RecordInsert(RecordInsert(EmptyRecord, MergeKey1, SampleFull), MergeKey2, SampleRms) }

MkFile(hd, record, comments) ==
    [header |-> hd, record |-> record, comments |-> comments, attributes |-> {}]

MergeHeader0 == MkMergeHeader(1, {}, 1, 2, "GPS", "CosZ", 2, 2, 0, {}, <<>>)

MergeFiles ==
    { MkFile(hd, RecordInsert(EmptyRecord, MergeKey1, SampleTecOnly), <<>>) : hd \in MergeHeaders }
    \cup
    { MkFile(MergeHeader0, r, c) : r \in MergeRecords, c \in { <<>>, << <<"a">> >> } }

\* how many comments of the list are the comment FILE MERGE
CountFileMerge(comments) == Cardinality({i \in 1..Len(comments) : comments[i] = FileMerge})

Merging(file) ==
    [phase |-> "merge", cur |-> file, lhs |-> file, rhs |-> file, n |-> 0, ok |-> TRUE,
     once |-> CountFileMerge(file.header.comments) <= 1]

\* lhs.merge(rhs), the result taking the place of lhs when it is Ok
Merge(rhs) ==
    /\ mg.phase = "merge"
    /\ mg.n < MaxMerges
    /\ LET r == IonexMerge(mg.cur, rhs) IN
       mg' = [mg EXCEPT !.cur = r.file, !.lhs = mg.cur, !.rhs = rhs, !.n = @ + 1, !.ok = r.ok,
                        !.once = @ /\ CountFileMerge(rhs.header.comments) <= 1]
    /\ UNCHANGED <<codecVars, hc, rg, ce, ax>>

MergeOther == \E rhs \in MergeFiles : Merge(rhs)

MergeSelf == Merge(mg.cur)

InitMerge ==
    /\ CodecIdle
    /\ hc = NoHeaderCodec
    /\ \E file \in MergeFiles : mg = Merging(file)
    /\ rg = NoRegion
    /\ ce = NoCell
    /\ ax = NoAxis

NextMerge ==
    \/ MergeOther
    \/ MergeSelf

SpecMerge == InitMerge /\ [][NextMerge]_vars

Merged == mg.phase = "merge" /\ mg.n >= 1

\* the header fields but the comments
HeaderSansComments(hd) == [f \in DOMAIN hd \ {"comments"} |-> hd[f]]

\* the operands of the last merge and its result
Lhs == mg.lhs
Rhs == mg.rhs
Result == mg.cur

(***************************************************************************)
(* Claims on merge.                                                        *)
(***************************************************************************)

\* C6: for every file X, X.merge(X) succeeds; the record of the result equals
\* the record of X, its header equals the header of X in every field
\* (description included) but the comments, which are those of X with the
\* comment FILE MERGE appended (when X does not hold it yet), and is_merged is
\* true on the result.
C6_SelfMerge ==
    (Merged /\ Rhs = Lhs) =>
        /\ mg.ok
        /\ RecordEq(Result.record, Lhs.record)
        /\ HeaderSansComments(Result.header) = HeaderSansComments(Lhs.header)
        /\ Result.header.comments = PushMergeComment(Lhs.header.comments)
        /\ IsMerged(Result)

\* C7: when the two files differ in reference system, in map dimension or in
\* mapping function, the merge fails with an error and the left operand is
\* left as it was.
C7_MismatchFails ==
    ( /\ Merged
      /\ \/ Lhs.header.reference_system # Rhs.header.reference_system
         \/ Lhs.header.map_dimension # Rhs.header.map_dimension
         \/ Lhs.header.mapf # Rhs.header.mapf ) =>
        /\ ~mg.ok
        /\ Result = Lhs

\* C8: after lhs.merge_mut(rhs) the keys of the record are the keys of lhs and
\* the keys of rhs; a key that was in lhs keeps the TECu of lhs, its RMS (its
\* height) is the one of lhs when lhs had one and otherwise the one of rhs;
\* a key that was only in rhs carries the sample of rhs.
C8_RecordUnion ==
    Merged =>
        LET l == Lhs.record
            r == Rhs.record
            m == Result.record
        IN  /\ DOMAIN m = DOMAIN l \cup DOMAIN r
            /\ \A k \in DOMAIN l :
                  /\ m[k].tecu = l[k].tecu
                  /\ m[k].rms = IF l[k].rms # {} THEN l[k].rms
                                ELSE IF k \in DOMAIN r THEN r[k].rms ELSE {}
                  /\ m[k].height = IF l[k].height # {} THEN l[k].height
                                   ELSE IF k \in DOMAIN r THEN r[k].height ELSE {}
            /\ \A k \in DOMAIN r \ DOMAIN l : m[k] = r[k]

\* a merge where a key of both records has an RMS on both sides, not the same,
\* and a height in rhs only, and where another key is in rhs only
C8_Witness ==
    /\ Merged
    /\ \E k \in DOMAIN Lhs.record \cap DOMAIN Rhs.record :
          /\ Lhs.record[k].rms # {}
          /\ Rhs.record[k].rms # {}
          /\ Lhs.record[k].rms # Rhs.record[k].rms
          /\ Lhs.record[k].tecu # Rhs.record[k].tecu
          /\ Lhs.record[k].height = {}
          /\ Rhs.record[k].height # {}
    /\ DOMAIN Rhs.record \ DOMAIN Lhs.record # {}

\* C9: after any number of successive merges of files whose header comments
\* hold the comment FILE MERGE at most once (files that are themselves results
\* of a merge included), the header comments of the result hold the comment
\* FILE MERGE exactly once.
C9_FileMergeOnce ==
    (Merged /\ mg.ok /\ mg.once) => CountFileMerge(Result.header.comments) = 1

\* a second merge, of a merged file with a file that holds the comment FILE
\* MERGE, all the files merged so far holding it at most once
C9_Witness ==
    /\ Merged
    /\ mg.n >= 2
    /\ mg.once
    /\ CountFileMerge(Lhs.header.comments) = 1
    /\ CountFileMerge(Rhs.header.comments) = 1
    /\ Rhs # Lhs

(***************************************************************************)
(* Region reduction: IONEX::to_regional_ionex and IONEX::map_cell_iter     *)
(* (lib.rs), MapCell (cell/mod.rs), Record::from_map_cells (record/mod.rs) *)
(* and the iteration of a QuantizedLinspace (linspace.rs).  Coordinates    *)
(* are whole degrees, which Quantized::auto_scaled keeps as they are       *)
(* (exponent 0).  A point is (x, y) = (longitude, latitude); a rectangle   *)
(* is its min and max corners.                                             *)
(***************************************************************************)

\* linspace.rs:17-27, the values that next() yields from ptr on
RECURSIVE QuantizeFrom(_, _)
QuantizeFrom(ls, ptr) ==
    IF ptr > ls.end THEN <<>> ELSE <<ptr>> \o QuantizeFrom(ls, ptr + ls.spacing)

\* linspace.rs:46-53
Quantize(ls) == QuantizeFrom(ls, ls.start)

\* itertools tuple_windows: the pairs of adjacent items
TupleWindows(q) == [i \in 1..(Len(q) - 1) |-> <<q[i], q[i + 1]>>]

\* itertools cartesian_product: the first item varies slowest
CartesianProduct(a, b) ==
    [i \in 1..(Len(a) * Len(b)) |->
        << a[((i - 1) \div Len(b)) + 1], b[((i - 1) % Len(b)) + 1] >>]

\* Header::timeseries: the epochs from the first map to the last one, a
\* sampling period apart
Timeseries(hd) ==
    [i \in 1..(((hd.epoch_of_last_map - hd.epoch_of_first_map) \div hd.sampling_period) + 1) |->
        hd.epoch_of_first_map + (i - 1) * hd.sampling_period]

Point(x, y) == [x |-> x, y |-> y]

\* lib.rs:935-998: the cell of an epoch and of two pairs of adjacent quanta,
\* if the record has the four samples looked up (Option as a set)
MapCellAt(file, epoch, lat1, lat2, long1, long2) ==
    LET alt == file.header.grid.altitude.start
        northeast == MkKey(epoch, lat1, long1, alt)
        northwest == MkKey(epoch, lat1, long2, alt)
        southeast == MkKey(epoch, lat2, long2, alt)
        southwest == MkKey(epoch, lat2, long2, alt)
    IN  IF {northeast, northwest, southeast, southwest} \subseteq DOMAIN file.record
        THEN { [epoch      |-> epoch,
                north_east |-> [tec |-> file.record[northeast], point |-> Point(long1, lat1)],
                north_west |-> [tec |-> file.record[northwest], point |-> Point(long2, lat1)],
                south_east |-> [tec |-> file.record[southeast], point |-> Point(long1, lat2)],
                south_west |-> [tec |-> file.record[southwest], point |-> Point(long2, lat2)]] }
        ELSE {}

\* lib.rs:926-934: what the iterator goes through, in its order
CellCandidates(file) ==
    CartesianProduct(Timeseries(file.header),
                     CartesianProduct(TupleWindows(Quantize(file.header.grid.latitude)),
                                      TupleWindows(Quantize(file.header.grid.longitude))))

CandidateCell(file, c) == MapCellAt(file, c[1], c[2][1][1], c[2][1][2], c[2][2][1], c[2][2][2])

\* lib.rs:925-1001: the cells yielded by the first n candidates
RECURSIVE CellsOf(_, _, _)
CellsOf(file, cands, n) ==
    IF n = 0 THEN <<>>
    ELSE LET cell == CandidateCell(file, cands[n])
         IN  CellsOf(file, cands, n - 1) \o (IF cell = {} THEN <<>> ELSE <<CHOOSE c \in cell : TRUE>>)

MapCellIter(file) == CellsOf(file, CellCandidates(file), Len(CellCandidates(file)))

\* geo Rect::new: the corners are put in order
RectNew(c1, c2) ==
    [min |-> Point(Min2(c1.x, c2.x), Min2(c1.y, c2.y)),
     max |-> Point(Max2(c1.x, c2.x), Max2(c1.y, c2.y))]

\* cell/mod.rs:294-296
CellBoundingRect(cell) == RectNew(cell.south_west.point, cell.north_east.point)

\* geo Contains<Rect> for Rect: rect holds other
RectContains(rect, other) ==
    /\ rect.min.x <= other.min.x
    /\ rect.max.x >= other.max.x
    /\ rect.min.y <= other.min.y
    /\ rect.max.y >= other.max.y

\* cell/mod.rs:310-312
CellContains(cell, geometry) == RectContains(CellBoundingRect(cell), geometry)

\* record/mod.rs:84-140
RECURSIVE FromMapCells(_, _)
FromMapCells(slice, fixed_altitude_km) ==
    IF slice = <<>> THEN EmptyRecord
    ELSE LET cell == slice[Len(slice)]
             before == FromMapCells(SubSeq(slice, 1, Len(slice) - 1), fixed_altitude_km)
             key(tp) == MkKey(cell.epoch, tp.point.y, tp.point.x, fixed_altitude_km)
             ne == RecordInsert(before, key(cell.north_east), cell.north_east.tec)
             nw == RecordInsert(ne, key(cell.north_west), cell.north_west.tec)
             sw == RecordInsert(nw, key(cell.south_west), cell.south_west.tec)
         IN  RecordInsert(sw, key(cell.south_east), cell.south_east.tec)

\* lib.rs:652-657
RegionalGrid(grid, boundaries) ==
    [grid EXCEPT !.latitude.start = Min2(@, boundaries.max.y),
                 !.longitude.start = Max2(@, boundaries.min.x),
                 !.latitude.end = Max2(@, boundaries.min.y),
                 !.longitude.end = Min2(@, boundaries.max.x)]

\* lib.rs:626 and 638-657: the file returned for the cells that were kept
RegionalIonex(file, cells, boundaries) ==
    [header     |-> [file.header EXCEPT !.grid = RegionalGrid(@, boundaries)],
     record     |-> FromMapCells(cells, file.header.grid.altitude.start),
     comments   |-> <<>>,
     attributes |-> {"regional"}]

(***************************************************************************)
(* The files that are reduced and the regions: a grid of 3 x 3 points,     *)
(* 2 degrees apart, at two epochs, with the latitude from south to north   *)
(* or from north to south, and a record that has every point of the grid   *)
(* or every point but one.  The bounding rectangle of the polygon is any   *)
(* rectangle with corners in RoiCoords, or none (a polygon without         *)
(* points).                                                                *)
(***************************************************************************)
MkRegionHeader(lat) ==
    [epoch_of_first_map |-> 1, epoch_of_last_map |-> 2, sampling_period |-> 1,
     grid |-> [latitude |-> lat, longitude |-> Linspace(-2, 2, 2), altitude |-> Linspace(3, 3, 0)]]

RegionHeaders == { MkRegionHeader(Linspace(-2, 2, 2)), MkRegionHeader(Linspace(2, -2, -2)) }

GridKeys(hd) ==
    { MkKey(e, lat, lon, hd.grid.altitude.start) :
        e \in {hd.epoch_of_first_map, hd.epoch_of_last_map},
        lat \in AxisPoints(hd.grid.latitude),
        lon \in AxisPoints(hd.grid.longitude) }

\* a TECu of its own at every key
TecAt(k) == FromQuantized(100 * k.epoch + 10 * (k.lat + 2) + (k.lon + 2), -1)

FullRecord(hd) == [k \in GridKeys(hd) |-> TecAt(k)]

RegionRecords(hd) ==
    { FullRecord(hd) } \cup
    { [k \in GridKeys(hd) \ {hole} |-> TecAt(k)] :
        hole \in {k \in GridKeys(hd) : k.epoch = hd.epoch_of_first_map} }

RegionFiles ==
    { [header |-> hd, record |-> r, comments |-> <<>>, attributes |-> {}] :
        hd \in RegionHeaders, r \in UNION { RegionRecords(h) : h \in RegionHeaders } }

RoiCoords == {-3, -1, 0, 1, 2, 3}

\* Polygon::bounding_rect, an Option
BoundingRects ==
    { {} } \cup
    { { RectNew(Point(x1, y1), Point(x2, y2)) } : x1, x2, y1, y2 \in RoiCoords }

Reducing(file, roi) ==
    [phase |-> "cells", file |-> file, roi |-> roi, seen |-> 0, cells |-> <<>>,
     ok |-> TRUE, result |-> file]

\* lib.rs:628: the polygon has no bounding rectangle
RegionUndefined ==
    /\ rg.phase = "cells"
    /\ rg.roi = {}
    /\ rg' = [rg EXCEPT !.phase = "done", !.ok = FALSE]
    /\ UNCHANGED <<codecVars, hc, mg, ce, ax>>

\* lib.rs:633-636: one more candidate of map_cell_iter, and the filter on its cell
RegionVisit ==
    /\ rg.phase = "cells"
    /\ rg.roi # {}
    /\ rg.seen < Len(CellCandidates(rg.file))
    /\ LET cell == CandidateCell(rg.file, CellCandidates(rg.file)[rg.seen + 1])
           kept == {c \in cell : \E boundaries \in rg.roi : CellContains(c, boundaries)}
       IN  rg' = [rg EXCEPT !.seen = @ + 1,
                            !.cells = @ \o (IF kept = {} THEN <<>> ELSE <<CHOOSE c \in kept : TRUE>>)]
    /\ UNCHANGED <<codecVars, hc, mg, ce, ax>>

\* lib.rs:638-659: the record of the cells kept, the header, the return
RegionCollect ==
    /\ rg.phase = "cells"
    /\ rg.roi # {}
    /\ rg.seen = Len(CellCandidates(rg.file))
    /\ \E boundaries \in rg.roi :
          rg' = [rg EXCEPT !.phase = "done",
                           !.result = RegionalIonex(rg.file, rg.cells, boundaries)]
    /\ UNCHANGED <<codecVars, hc, mg, ce, ax>>

InitRegion ==
    /\ CodecIdle
    /\ hc = NoHeaderCodec
    /\ mg = NoMerge
    /\ \E file \in RegionFiles, roi \in BoundingRects : rg = Reducing(file, roi)
    /\ ce = NoCell
    /\ ax = NoAxis

NextRegion ==
    \/ RegionUndefined
    \/ RegionVisit
    \/ RegionCollect

SpecRegion == InitRegion /\ [][NextRegion]_vars

\* the cells of the file whose bounding rectangle lies inside a rectangle
RECURSIVE CellsInside(_, _)
CellsInside(cells, boundaries) ==
    IF cells = <<>> THEN <<>>
    ELSE (IF RectContains(boundaries, CellBoundingRect(Head(cells))) THEN <<Head(cells)>> ELSE <<>>)
         \o CellsInside(Tail(cells), boundaries)

\* C10: the record of the file returned by to_regional_ionex(polygon) holds
\* the corner samples of the cells of the file whose bounding rectangle lies
\* inside the bounding rectangle of the polygon, and nothing else.
C10_RegionReduction ==
    (rg.phase = "done" /\ rg.ok) =>
        \A boundaries \in rg.roi :
            RecordEq(rg.result.record,
                     FromMapCells(CellsInside(MapCellIter(rg.file), boundaries),
                                  rg.file.header.grid.altitude.start))

\* lib.rs:562-567
BoundingRectDegrees(file) ==
    RectNew(Point(file.header.grid.longitude.start, file.header.grid.latitude.start),
            Point(file.header.grid.longitude.end, file.header.grid.latitude.end))

\* lib.rs:571-578; the region of the attributes when there are some,
\* otherwise the size of the bounding rectangle
IsWorldwideMap(file) ==
    IF file.attributes # {}
    THEN "worldwide" \in file.attributes
    ELSE LET r == BoundingRectDegrees(file)
         IN  r.max.x - r.min.x = 360 /\ 2 * (r.max.y - r.min.y) = 350

\* lib.rs:581-583
IsRegionalMap(file) == ~IsWorldwideMap(file)

\* C11: for a region whose bounding rectangle lies inside the map, the file
\* returned by to_regional_ionex is a regional map and its bounding rectangle
\* is the bounding rectangle of the region, whether the latitude axis of the
\* map runs from north to south or from south to north.
C11_RegionalBounds ==
    (rg.phase = "done" /\ rg.ok) =>
        \A boundaries \in rg.roi :
            RectContains(BoundingRectDegrees(rg.file), boundaries) =>
                /\ IsRegionalMap(rg.result)
                /\ BoundingRectDegrees(rg.result) = boundaries

(***************************************************************************)
(* Interpolation in a MapCell (cell/mod.rs).  Coordinates are counted in   *)
(* quarters of a degree, so that the unitary cell of from_unitary_tec is   *)
(* the square (0,0)-(4,4) and has points inside it; containment, spans and *)
(* the ratios p and q do not depend on the unit.  A TECu, a real number in *)
(* the code, is a fraction num/den with den > 0; epochs are counted in     *)
(* seconds.                                                                *)
(***************************************************************************)
Rat(num, den) == [num |-> num, den |-> den]
RatAdd(a, b) ==
    IF a.den = b.den
    THEN Rat(a.num + b.num, a.den)
    ELSE Rat(a.num * b.den + b.num * a.den, a.den * b.den)
RatMul(a, b) == Rat(a.num * b.num, a.den * b.den)
RatEq(a, b) == a.num * b.den = b.num * a.den

\* TEC::from_tecu of a whole number of TECu
FromTecu(tecu) == [tecu |-> [value |-> tecu, exponent |-> 0], rms |-> {}, height |-> {}]

\* TEC::tecu: Quantized::real_value, value / 10^exponent
Tecu(tec) ==
    Rat(tec.tecu.value * Pow10(-tec.tecu.exponent), Pow10(tec.tecu.exponent))

TecPoint(tec, point) == [tec |-> tec, point |-> point]

\* cell/mod.rs:46-78
FromLatLongDegrees(epoch, ne, ne_tec, nw, nw_tec, se, se_tec, sw, sw_tec) ==
    [epoch      |-> epoch,
     north_east |-> TecPoint(ne_tec, Point(ne[1], ne[2])),
     north_west |-> TecPoint(nw_tec, Point(nw[1], nw[2])),
     south_east |-> TecPoint(se_tec, Point(se[1], se[2])),
     south_west |-> TecPoint(sw_tec, Point(sw[1], sw[2]))]

\* one degree, in quarters of a degree
Degree == 4

\* cell/mod.rs:234-252
FromUnitaryTec(epoch, northeast_tec, northwest_tec, southeast_tec, southwest_tec) ==
    FromLatLongDegrees(epoch, <<Degree, Degree>>, northeast_tec, <<0, Degree>>, northwest_tec,
                       <<Degree, 0>>, southeast_tec, <<0, 0>>, southwest_tec)

\* cell/mod.rs:351-360
LatitudeSpanDegrees(cell) == CellBoundingRect(cell).max.y - CellBoundingRect(cell).min.y
LongitudeSpanDegrees(cell) == CellBoundingRect(cell).max.x - CellBoundingRect(cell).min.x

\* geo Contains<Point> for Rect.  The points of the border are inside or not
\* according to the release of geo the crate is built with (border is TRUE
\* when they are).
RectContainsPoint(rect, point, border) ==
    IF border
    THEN /\ rect.min.x <= point.x /\ point.x <= rect.max.x
         /\ rect.min.y <= point.y /\ point.y <= rect.max.y
    ELSE /\ rect.min.x < point.x /\ point.x < rect.max.x
         /\ rect.min.y < point.y /\ point.y < rect.max.y

\* cell/mod.rs:310-312, for a point
CellContainsPoint(cell, point, border) == RectContainsPoint(CellBoundingRect(cell), point, border)

InterpOk(tecu) == [ok |-> TRUE, err |-> "", tecu |-> tecu]
InterpErr(err) == [ok |-> FALSE, err |-> err, tecu |-> Rat(0, 1)]

\* cell/mod.rs:415-435; (1-p)(1-q), p(1-q), q(1-p) and pq are written over
\* the common denominator latitude_span * longitude_span
SpatialTecInterp(cell, point, border) ==
    IF ~CellContainsPoint(cell, point, border)
    THEN InterpErr("OutsideSpatialBoundaries")
    ELSE LET latitude_span == LatitudeSpanDegrees(cell)
             longitude_span == LongitudeSpanDegrees(cell)
             p == point.y
             q == point.x
             e00 == Tecu(cell.south_west.tec)
             e10 == Tecu(cell.south_east.tec)
             e01 == Tecu(cell.north_west.tec)
             e11 == Tecu(cell.north_east.tec)
             w(n) == Rat(n, latitude_span * longitude_span)
         IN  InterpOk(RatAdd(RatAdd(RatMul(w((latitude_span - p) * (longitude_span - q)), e00),
                                    RatMul(w(p * (longitude_span - q)), e10)),
                             RatAdd(RatMul(w(q * (latitude_span - p)), e01),
                                    RatMul(w(p * q), e11))))

\* cell/mod.rs:802-833, with the two weights the other way round
TemporalSpatialTecInterpSwapped(cell, epoch, coordinates, rhs, border) ==
    LET r0 == SpatialTecInterp(cell, coordinates, border)
        r1 == SpatialTecInterp(rhs, coordinates, border)
    IN  IF ~r0.ok THEN r0
        ELSE IF ~r1.ok THEN r1
        ELSE IF epoch >= cell.epoch /\ epoch < rhs.epoch
        THEN LET dt == rhs.epoch - cell.epoch
             IN  InterpOk(RatAdd(RatMul(Rat(epoch - cell.epoch, dt), r0.tecu),
                                 RatMul(Rat(rhs.epoch - epoch, dt), r1.tecu)))
        ELSE IF epoch >= rhs.epoch /\ epoch < cell.epoch
        THEN LET dt == cell.epoch - rhs.epoch
             IN  InterpOk(RatAdd(RatMul(Rat(epoch - rhs.epoch, dt), r1.tecu),
                                 RatMul(Rat(cell.epoch - epoch, dt), r0.tecu)))
        ELSE InterpErr("TemporalMismatch")

\* cell/mod.rs:802-833
TemporalSpatialTecInterp(cell, epoch, coordinates, rhs, border) ==
    LET r0 == SpatialTecInterp(cell, coordinates, border)
        r1 == SpatialTecInterp(rhs, coordinates, border)
    IN  IF ~r0.ok THEN r0
        ELSE IF ~r1.ok THEN r1
        ELSE IF epoch >= cell.epoch /\ epoch < rhs.epoch
        THEN LET dt == rhs.epoch - cell.epoch
             IN  InterpOk(RatAdd(RatMul(Rat(rhs.epoch - epoch, dt), r0.tecu),
                                 RatMul(Rat(epoch - cell.epoch, dt), r1.tecu)))
        ELSE IF epoch >= rhs.epoch /\ epoch < cell.epoch
        THEN LET dt == cell.epoch - rhs.epoch
             IN  InterpOk(RatAdd(RatMul(Rat(cell.epoch - epoch, dt), r1.tecu),
                                 RatMul(Rat(epoch - rhs.epoch, dt), r0.tecu)))
        ELSE InterpErr("TemporalMismatch")

(***************************************************************************)
(* The interpolations that are checked: a cell (self) and a cell over the  *)
(* same region (rhs), the unitary cell or a cell twice as wide, with       *)
(* corner TECs that single out one corner or are all equal; a point inside *)
(* the cell, on its border or outside; an epoch before, at, between and    *)
(* after the epochs of the two cells.                                      *)
(***************************************************************************)
\* north-east, north-west, south-east, south-west, in TECu
CornerTecs == { <<1, 0, 0, 0>>, <<0, 1, 0, 0>>, <<0, 0, 1, 0>>, <<0, 0, 0, 1>>, <<2, 2, 2, 2>> }
RhsCornerTecs == { <<0, 0, 0, 0>>, <<2, 2, 2, 2>>, <<1, 0, 0, 0>> }
CellWidths == { Degree, 2 * Degree }
CellEpochs == { 0, 4 }
InterpEpochs == { -1, 0, 1, 3, 4, 5 }
PointCoords == { -1, 0, 1, 3, 4 }

CellOf(epoch, width, t) ==
    FromLatLongDegrees(epoch, <<width, Degree>>, FromTecu(t[1]), <<0, Degree>>, FromTecu(t[2]),
                       <<width, 0>>, FromTecu(t[3]), <<0, 0>>, FromTecu(t[4]))

Interpolating(cell, rhs, point, epoch, border) ==
    [phase |-> "interp", cell |-> cell, rhs |-> rhs, point |-> point, epoch |-> epoch,
     border |-> border, spatial |-> InterpErr(""), spatial_rhs |-> InterpErr(""),
     temporal |-> InterpErr("")]

\* cell.spatial_tec_interp(point), and the same on rhs
SpatialInterp ==
    /\ ce.phase = "interp"
    /\ ce' = [ce EXCEPT !.phase = "spatial",
                        !.spatial = SpatialTecInterp(ce.cell, ce.point, ce.border),
                        !.spatial_rhs = SpatialTecInterp(ce.rhs, ce.point, ce.border)]
    /\ UNCHANGED <<codecVars, hc, mg, rg, ax>>

\* cell.temporal_spatial_tec_interp(epoch, point, rhs)
TemporalInterp ==
    /\ ce.phase = "spatial"
    /\ ce' = [ce EXCEPT !.phase = "temporal",
                        !.temporal = TemporalSpatialTecInterp(ce.cell, ce.epoch, ce.point,
                                                              ce.rhs, ce.border)]
    /\ UNCHANGED <<codecVars, hc, mg, rg, ax>>

InitInterp ==
    /\ CodecIdle
    /\ hc = NoHeaderCodec
    /\ mg = NoMerge
    /\ rg = NoRegion
    /\ ax = NoAxis
    /\ \E width \in CellWidths, t \in CornerTecs, u \in RhsCornerTecs,
          e0 \in CellEpochs, e1 \in CellEpochs, epoch \in InterpEpochs,
          x \in PointCoords, y \in PointCoords, border \in BOOLEAN :
          ce = Interpolating(CellOf(e0, width, t), CellOf(e1, width, u), Point(x, y), epoch, border)

NextInterp ==
    \/ SpatialInterp
    \/ TemporalInterp

SpecInterp == InitInterp /\ [][NextInterp]_vars

\* (1-p_y)(1-p_x) SW + (1-p_y) p_x SE + p_y (1-p_x) NW + p_y p_x NE, with
\* p_x = x / span_lon and p_y = y / span_lat
Bilinear(cell, point) ==
    LET sx == LongitudeSpanDegrees(cell)
        sy == LatitudeSpanDegrees(cell)
        x == point.x
        y == point.y
        w(n) == Rat(n, sx * sy)
    IN  RatAdd(RatAdd(RatMul(w((sy - y) * (sx - x)), Tecu(cell.south_west.tec)),
                      RatMul(w((sy - y) * x), Tecu(cell.south_east.tec))),
               RatAdd(RatMul(w(y * (sx - x)), Tecu(cell.north_west.tec)),
                      RatMul(w(y * x), Tecu(cell.north_east.tec))))

\* C12: at a point (x, y) of the cell, spatial_tec_interp returns
\* (1-p_y)(1-p_x) SW + (1-p_y) p_x SE + p_y (1-p_x) NW + p_y p_x NE with
\* p_x = x / span_lon and p_y = y / span_lat: on the unitary cell with one
\* corner at 1 TECu and the others at 0, x y for NE, (1-x)(1-y) for SW,
\* x (1-y) for SE and (1-x) y for NW.
C12_Bilinear ==
    (ce.phase \in {"spatial", "temporal"} /\ ce.spatial.ok) =>
        RatEq(ce.spatial.tecu, Bilinear(ce.cell, ce.point))

MkCellHeader(lat) ==
    [epoch_of_first_map |-> 1, epoch_of_last_map |-> 3, sampling_period |-> 2,
     grid |-> [latitude |-> lat, longitude |-> Linspace(-2, 2, 2), altitude |-> Linspace(3, 3, 0)]]

CellHeaders == { MkCellHeader(Linspace(-2, 2, 2)), MkCellHeader(Linspace(2, -2, -2)) }

CellFiles ==
    { [header |-> hd, record |-> r, comments |-> <<>>, attributes |-> {}] :
        hd \in CellHeaders, r \in UNION { RegionRecords(h) : h \in CellHeaders } }

RoiEpochs == {0, 1, 2, 3, 4}

RoiPoints == { Point(x, y) : x, y \in {-3, -2, -1, 0, 1, 2} }

\* lib.rs:1168-1177
SynchronousMapCellIter(file, epoch) == SelectSeq(MapCellIter(file), LAMBDA v : v.epoch = epoch)

\* lib.rs:1105-1116: the loop over the sampling instants before the last map
RECURSIVE NeedsTemporalInterp(_, _, _)
NeedsTemporalInterp(hd, t, epoch) ==
    IF t < hd.epoch_of_last_map
    THEN IF t = epoch THEN FALSE ELSE NeedsTemporalInterp(hd, t + hd.sampling_period, epoch)
    ELSE TRUE

\* lib.rs:1100-1151, an Option as a set; the loop of the temporal branch
\* (lib.rs:1120-1139) has an empty body and returns nothing
UnitaryRoiAt(file, epoch, coordinates, border) ==
    IF NeedsTemporalInterp(file.header, file.header.epoch_of_first_map, epoch)
    THEN {}
    ELSE LET found == SelectSeq(SynchronousMapCellIter(file, epoch),
                                LAMBDA cell : CellContainsPoint(cell, coordinates, border))
         IN  IF found = <<>> THEN {} ELSE {Head(found)}

Iterating(file) ==
    [phase |-> "iter", file |-> file, seen |-> 0, cells |-> <<>>, record |-> EmptyRecord,
     epoch |-> 0, point |-> Point(0, 0), border |-> FALSE, roi |-> {}]

\* lib.rs:925-1001: one more candidate of map_cell_iter
CellIterNext ==
    /\ rg.phase = "iter"
    /\ rg.seen < Len(CellCandidates(rg.file))
    /\ LET cell == CandidateCell(rg.file, CellCandidates(rg.file)[rg.seen + 1])
       IN  rg' = [rg EXCEPT !.seen = @ + 1,
                            !.cells = @ \o (IF cell = {} THEN <<>> ELSE <<CHOOSE c \in cell : TRUE>>)]
    /\ UNCHANGED <<codecVars, hc, mg, ce, ax>>

\* record/mod.rs:84-140, on the cells collected from the iterator
CellsCollect ==
    /\ rg.phase = "iter"
    /\ rg.seen = Len(CellCandidates(rg.file))
    /\ rg' = [rg EXCEPT !.phase = "collected",
                        !.record = FromMapCells(rg.cells, rg.file.header.grid.altitude.start)]
    /\ UNCHANGED <<codecVars, hc, mg, ce, ax>>

\* lib.rs:1100-1151
UnitaryRoi ==
    /\ rg.phase = "collected"
    /\ \E epoch \in RoiEpochs, coordinates \in RoiPoints, border \in BOOLEAN :
          rg' = [rg EXCEPT !.phase = "roi", !.epoch = epoch, !.point = coordinates,
                           !.border = border,
                           !.roi = UnitaryRoiAt(rg.file, epoch, coordinates, border)]
    /\ UNCHANGED <<codecVars, hc, mg, ce, ax>>

InitCells ==
    /\ CodecIdle
    /\ hc = NoHeaderCodec
    /\ mg = NoMerge
    /\ \E file \in CellFiles : rg = Iterating(file)
    /\ ce = NoCell
    /\ ax = NoAxis

NextCells ==
    \/ CellIterNext
    \/ CellsCollect
    \/ UnitaryRoi

SpecCells == InitCells /\ [][NextCells]_vars

\* C14: for a file whose record holds a sample at every point of the grid
\* for every epoch, the record built by Record::from_map_cells from the
\* cells of map_cell_iter is equal to the record of the file.
C14_FromMapCellsInverse ==
    (rg.phase \in {"collected", "roi"} /\ rg.file.record = FullRecord(rg.file.header)) =>
        RecordEq(rg.record, rg.file.record)

\* the point lies strictly inside a cell of the grid
InsideGridCell(hd, point) ==
    \E x1, x2 \in AxisPoints(hd.grid.longitude), y1, y2 \in AxisPoints(hd.grid.latitude) :
        /\ x2 - x1 = 2 /\ y2 - y1 = 2
        /\ x1 < point.x /\ point.x < x2
        /\ y1 < point.y /\ point.y < y2

\* C15: when the record holds every sample, the point lies inside a cell of
\* the grid and the epoch is within the sampled range, unitary_roi_at returns
\* a cell that holds the point; it is the cell of that epoch when the epoch
\* is the epoch of a map, the last map included.
C15_UnitaryRoi ==
    (/\ rg.phase = "roi"
     /\ rg.file.record = FullRecord(rg.file.header)
     /\ InsideGridCell(rg.file.header, rg.point)
     /\ rg.file.header.epoch_of_first_map <= rg.epoch
     /\ rg.epoch <= rg.file.header.epoch_of_last_map) =>
        /\ rg.roi # {}
        /\ \A cell \in rg.roi :
              /\ CellContainsPoint(cell, rg.point, rg.border)
              /\ rg.epoch \in {rg.file.header.epoch_of_first_map,
                               rg.file.header.epoch_of_last_map} => cell.epoch = rg.epoch


(***************************************************************************)
(* Cell3x3: a central cell and its eight neighbors.  A Result is a record  *)
(* with the value of Ok or the error of Err.                               *)
(***************************************************************************)

\* derive(Default) of MapCell: Epoch::default(), null TEC, points at the origin
DefaultEpoch == 0

MapCellDefault ==
    [epoch      |-> DefaultEpoch,
     north_east |-> TecPoint(FromTecu(0), Point(0, 0)),
     north_west |-> TecPoint(FromTecu(0), Point(0, 0)),
     south_east |-> TecPoint(FromTecu(0), Point(0, 0)),
     south_west |-> TecPoint(FromTecu(0), Point(0, 0))]

\* cell/three_by_three.rs:36-64, derive(Default)
Cell3x3Default ==
    [center |-> MapCellDefault, northeast |-> MapCellDefault, north |-> MapCellDefault,
     northwest |-> MapCellDefault, west |-> MapCellDefault, southwest |-> MapCellDefault,
     south |-> MapCellDefault, southeast |-> MapCellDefault, east |-> MapCellDefault]

Slots == DOMAIN Cell3x3Default

Directions == Slots \ {"center"}

\* cell/mod.rs:145-147
TemporalMatch(self, rhs) == self.epoch = rhs.epoch

\* cell/mod.rs:155-158
IsNorthernNeighbor(self, rhs) ==
    /\ rhs.north_east.point = self.south_east.point
    /\ rhs.north_west.point = self.south_west.point

\* cell/mod.rs:160-162
IsNorthwesternNeighbor(self, rhs) == FALSE

\* cell/mod.rs:164-166
IsNortheasternNeighbor(self, rhs) == FALSE

\* cell/mod.rs:169-172
IsSouthernNeighbor(self, rhs) ==
    /\ rhs.south_east.point = self.north_east.point
    /\ rhs.south_west.point = self.north_west.point

\* cell/mod.rs:174-176
IsSoutheasternNeighbor(self, rhs) == FALSE

\* cell/mod.rs:178-180
IsSouthwesternNeighbor(self, rhs) == FALSE

\* cell/mod.rs:183-186
IsEasternNeighbor(self, rhs) ==
    /\ rhs.north_west.point = self.north_east.point
    /\ rhs.south_west.point = self.south_east.point

\* cell/mod.rs:189-192
IsWesternNeighbor(self, rhs) ==
    /\ rhs.north_east.point = self.north_west.point
    /\ rhs.south_east.point = self.south_west.point

\* cell/mod.rs:195-204
IsNeighbor(self, rhs) ==
    \/ IsNorthernNeighbor(self, rhs)
    \/ IsNorthwesternNeighbor(self, rhs)
    \/ IsNortheasternNeighbor(self, rhs)
    \/ IsSouthernNeighbor(self, rhs)
    \/ IsSouthwesternNeighbor(self, rhs)
    \/ IsSoutheasternNeighbor(self, rhs)
    \/ IsWesternNeighbor(self, rhs)
    \/ IsEasternNeighbor(self, rhs)

RoiOk(roi) == [ok |-> TRUE, err |-> "", roi |-> roi]
RoiErr(err) == [ok |-> FALSE, err |-> err, roi |-> Cell3x3Default]

\* cell/three_by_three.rs:99-111
WithEpoch(self, epoch) == [slot \in Slots |-> [self[slot] EXCEPT !.epoch = epoch]]

\* cell/three_by_three.rs:113-121
WithCentralCell(self, cell) ==
    IF cell.epoch = self.center.epoch
    THEN RoiOk([self EXCEPT !.center = cell]) ELSE RoiErr("TemporalMismatch")

\* the same without the comparison of the epochs
WithWesternCellUnchecked(self, cell) == RoiOk([self EXCEPT !.west = cell])

\* cell/three_by_three.rs:123-131
WithWesternCell(self, cell) ==
    IF cell.epoch = self.west.epoch
    THEN RoiOk([self EXCEPT !.west = cell]) ELSE RoiErr("TemporalMismatch")

\* cell/three_by_three.rs:133-141
WithEasternCell(self, cell) ==
    IF cell.epoch = self.east.epoch
    THEN RoiOk([self EXCEPT !.east = cell]) ELSE RoiErr("TemporalMismatch")

\* cell/three_by_three.rs:143-151
WithSouthernCell(self, cell) ==
    IF cell.epoch = self.south.epoch
    THEN RoiOk([self EXCEPT !.south = cell]) ELSE RoiErr("TemporalMismatch")

\* cell/three_by_three.rs:153-161
WithNorthernCell(self, cell) ==
    IF cell.epoch = self.north.epoch
    THEN RoiOk([self EXCEPT !.north = cell]) ELSE RoiErr("TemporalMismatch")

\* cell/three_by_three.rs:163-171
WithSouthwesternCell(self, cell) ==
    IF cell.epoch = self.southwest.epoch
    THEN RoiOk([self EXCEPT !.southwest = cell]) ELSE RoiErr("TemporalMismatch")

\* cell/three_by_three.rs:173-181
WithSoutheasternCell(self, cell) ==
    IF cell.epoch = self.southeast.epoch
    THEN RoiOk([self EXCEPT !.southeast = cell]) ELSE RoiErr("TemporalMismatch")

\* cell/three_by_three.rs:183-191
WithNorthwesternCell(self, cell) ==
    IF cell.epoch = self.northwest.epoch
    THEN RoiOk([self EXCEPT !.northwest = cell]) ELSE RoiErr("TemporalMismatch")

\* cell/three_by_three.rs:193-201
WithNortheasternCell(self, cell) ==
    IF cell.epoch = self.northeast.epoch
    THEN RoiOk([self EXCEPT !.northeast = cell]) ELSE RoiErr("TemporalMismatch")

\* the method that replaces the cell of a slot
WithSlotCell(self, slot, cell) ==
    CASE slot = "center"    -> WithCentralCell(self, cell)
      [] slot = "west"      -> WithWesternCell(self, cell)
      [] slot = "east"      -> WithEasternCell(self, cell)
      [] slot = "south"     -> WithSouthernCell(self, cell)
      [] slot = "north"     -> WithNorthernCell(self, cell)
      [] slot = "southwest" -> WithSouthwesternCell(self, cell)
      [] slot = "southeast" -> WithSoutheasternCell(self, cell)
      [] slot = "northwest" -> WithNorthwesternCell(self, cell)
      [] slot = "northeast" -> WithNortheasternCell(self, cell)


\* cell/three_by_three.rs:211-222: cells[i] is a neighbor of, and synchronous
\* with, every other cell
AllSynchronousNeighbors(cells, i) ==
    \A j \in (1..9) \ {i} : IsNeighbor(cells[i], cells[j]) /\ TemporalMatch(cells[i], cells[j])

\* cell/three_by_three.rs:225-264: the neighborhood and the count after the
\* cells 1..j were looked at, cells[i] being the center; panic is TRUE when
\* an unwrap met an Err
RECURSIVE OrderNeighbors(_, _, _)
OrderNeighbors(cells, i, j) ==
    IF j = 0
    THEN LET r == WithCentralCell(WithEpoch(Cell3x3Default, cells[i].epoch), cells[i])
         IN  [ret |-> r.roi, count |-> 0, panic |-> ~r.ok]
    ELSE LET acc == OrderNeighbors(cells, i, j - 1)
             put(r) == [ret |-> r.roi, count |-> acc.count + 1, panic |-> acc.panic \/ ~r.ok]
         IN  IF j = i \/ acc.panic THEN acc
             ELSE IF IsNorthwesternNeighbor(cells[j], cells[i])
                  THEN put(WithNorthwesternCell(acc.ret, cells[j]))
             ELSE IF IsNortheasternNeighbor(cells[j], cells[i])
                  THEN put(WithNortheasternCell(acc.ret, cells[j]))
             ELSE IF IsNorthernNeighbor(cells[j], cells[i])
                  THEN put(WithNorthernCell(acc.ret, cells[j]))
             ELSE IF IsSouthwesternNeighbor(cells[j], cells[i])
                  THEN put(WithSouthwesternCell(acc.ret, cells[j]))
             ELSE IF IsSoutheasternNeighbor(cells[j], cells[i])
                  THEN put(WithSoutheasternCell(acc.ret, cells[j]))
             ELSE IF IsSouthernNeighbor(cells[j], cells[i])
                  THEN put(WithSouthernCell(acc.ret, cells[j]))
             ELSE IF IsEasternNeighbor(cells[j], cells[i])
                  THEN put(WithEasternCell(acc.ret, cells[j]))
             ELSE IF IsWesternNeighbor(cells[j], cells[i])
                  THEN put(WithWesternCell(acc.ret, cells[j]))
             ELSE acc

\* cell/three_by_three.rs:205-275, from the candidate center i on; the
\* Option is a set
RECURSIVE FromSliceFrom(_, _)
FromSliceFrom(cells, i) ==
    IF i > 9 THEN [panic |-> FALSE, some |-> {}]
    ELSE IF AllSynchronousNeighbors(cells, i)
         THEN LET acc == OrderNeighbors(cells, i, 9)
              IN  IF acc.panic THEN [panic |-> TRUE, some |-> {}]
                  ELSE IF acc.count = 8 THEN [panic |-> FALSE, some |-> {acc.ret}]
                  ELSE FromSliceFrom(cells, i + 1)
         ELSE FromSliceFrom(cells, i + 1)

\* cell/three_by_three.rs:203-276
FromSlice(cells) == FromSliceFrom(cells, 1)

(***************************************************************************)
(* The slices given to from_slice.  The cells are squares of one degree;   *)
(* BlockCell(col, row, epoch) has its south-west corner at (col, row) and  *)
(* a TEC of its own.  A slice is the block of 3 x 3 cells in some order,   *)
(* the block with one cell of another epoch, or a cell with copies of its  *)
(* northern, southern, eastern and western neighbors.                      *)
(***************************************************************************)
BlockCell(col, row, epoch) ==
    LET tec == FromTecu(3 * row + col + 1)
    IN  FromLatLongDegrees(epoch, <<col + 1, row + 1>>, tec, <<col, row + 1>>, tec,
                           <<col + 1, row>>, tec, <<col, row>>, tec)

SliceEpoch == 1

Block == [k \in 1..9 |-> BlockCell((k - 1) % 3, (k - 1) \div 3, SliceEpoch)]

Rotate(s, k) == [n \in 1..9 |-> s[((n - 1 + k) % 9) + 1]]

Reverse(s) == [n \in 1..9 |-> s[10 - n]]

Swap(s, a, b) == [n \in 1..9 |-> IF n = a THEN s[b] ELSE IF n = b THEN s[a] ELSE s[n]]

BlockSlices ==
    { Swap(Rotate(s, k), a, b) : s \in {Block, Reverse(Block)}, k \in 0..8, a \in 1..9, b \in 1..9 }

AsyncSlices == { [Block EXCEPT ![n].epoch = SliceEpoch + 1] : n \in 1..9 }

\* the neighbors of the middle cell of the block in the four directions
Cross == << BlockCell(1, 2, SliceEpoch), BlockCell(1, 0, SliceEpoch),
            BlockCell(2, 1, SliceEpoch), BlockCell(0, 1, SliceEpoch) >>

CrossSlices ==
    { [n \in 1..9 |->
          IF n = c THEN BlockCell(1, 1, SliceEpoch)
          ELSE IF d1 = 0 THEN Cross[(n % 4) + 1]
          ELSE IF n % 2 = 0 THEN Cross[d1] ELSE Cross[d2]] :
      c \in 1..9, d1 \in 0..4, d2 \in 1..4 }

Slices == BlockSlices \cup AsyncSlices \cup CrossSlices

Slicing(cells) == [phase |-> "slice", cells |-> cells, ret |-> [panic |-> FALSE, some |-> {}]]

\* Cell3x3::from_slice(cells)
Slice ==
    /\ ce.phase = "slice"
    /\ ce' = [ce EXCEPT !.phase = "sliced", !.ret = FromSlice(ce.cells)]
    /\ UNCHANGED <<codecVars, hc, mg, rg, ax>>

InitSlice ==
    /\ CodecIdle
    /\ hc = NoHeaderCodec
    /\ mg = NoMerge
    /\ rg = NoRegion
    /\ \E cells \in Slices : ce = Slicing(cells)
    /\ ax = NoAxis

NextSlice == Slice

SpecSlice == InitSlice /\ [][NextSlice]_vars

\* the neighborhood of the middle cell of the block
BlockNeighborhood ==
    [center    |-> BlockCell(1, 1, SliceEpoch),
     north     |-> BlockCell(1, 2, SliceEpoch),
     northeast |-> BlockCell(2, 2, SliceEpoch),
     east      |-> BlockCell(2, 1, SliceEpoch),
     southeast |-> BlockCell(2, 0, SliceEpoch),
     south     |-> BlockCell(1, 0, SliceEpoch),
     southwest |-> BlockCell(0, 0, SliceEpoch),
     west      |-> BlockCell(0, 1, SliceEpoch),
     northwest |-> BlockCell(0, 2, SliceEpoch)]

\* C16: for nine synchronous cells that form a block of 3 x 3 cells, in any
\* order, from_slice returns the neighborhood whose center is the middle cell
\* of the block and whose eight slots hold the cells in their directions.
C16_FromSliceBlock ==
    (ce.phase = "sliced" /\ ce.cells \in BlockSlices) =>
        (~ce.ret.panic /\ ce.ret.some = {BlockNeighborhood})

\* cell is the direct neighbor of center in the direction of the slot
DirectNeighbor(slot, cell, center) ==
    CASE slot = "north"     -> /\ cell.south_west.point = center.north_west.point
                               /\ cell.south_east.point = center.north_east.point
      [] slot = "south"     -> /\ cell.north_west.point = center.south_west.point
                               /\ cell.north_east.point = center.south_east.point
      [] slot = "east"      -> /\ cell.north_west.point = center.north_east.point
                               /\ cell.south_west.point = center.south_east.point
      [] slot = "west"      -> /\ cell.north_east.point = center.north_west.point
                               /\ cell.south_east.point = center.south_west.point
      [] slot = "northeast" -> cell.south_west.point = center.north_east.point
      [] slot = "northwest" -> cell.south_east.point = center.north_west.point
      [] slot = "southeast" -> cell.north_west.point = center.south_east.point
      [] slot = "southwest" -> cell.north_east.point = center.south_west.point

\* C17: in every neighborhood returned by from_slice, each of the eight
\* slots around the center holds a cell of the slice that is the direct
\* neighbor of the center in the direction of the slot, and no two slots
\* hold the same cell.
C17_NeighborhoodInvariant ==
    (ce.phase = "sliced") =>
        \A roi \in ce.ret.some :
            /\ \A slot \in Directions :
                  /\ \E j \in 1..9 : ce.cells[j] = roi[slot]
                  /\ DirectNeighbor(slot, roi[slot], roi.center)
            /\ \A s, t \in Directions : s # t => roi[s] # roi[t]


(***************************************************************************)
(* A neighborhood built from Cell3x3::default() by with_epoch and by the   *)
(* methods that replace one cell.  The caller keeps the neighborhood it    *)
(* had when a replacement is rejected.                                     *)
(***************************************************************************)
MaxBuildSteps == 3

BuildEpochs == {0, 1, 2}

BuildCells == { BlockCell(1, 1, epoch) : epoch \in BuildEpochs }

NoCall == [op |-> "none", ok |-> TRUE, err |-> "", epoch |-> DefaultEpoch, before |-> DefaultEpoch]

Building == [phase |-> "build", roi |-> Cell3x3Default, steps |-> 0, last |-> NoCall]

\* roi.with_epoch(epoch)
BuildWithEpoch ==
    /\ ce.phase = "build"
    /\ ce.steps < MaxBuildSteps
    /\ \E epoch \in BuildEpochs :
          ce' = [ce EXCEPT !.roi = WithEpoch(ce.roi, epoch), !.steps = @ + 1,
                           !.last = [op |-> "with_epoch", ok |-> TRUE, err |-> "",
                                     epoch |-> epoch, before |-> ce.roi.center.epoch]]
    /\ UNCHANGED <<codecVars, hc, mg, rg, ax>>

\* roi.with_central_cell(cell), roi.with_western_cell(cell), ...
BuildWithCell ==
    /\ ce.phase = "build"
    /\ ce.steps < MaxBuildSteps
    /\ \E slot \in Slots, cell \in BuildCells :
          LET r == WithSlotCell(ce.roi, slot, cell)
          IN  ce' = [ce EXCEPT !.roi = IF r.ok THEN r.roi ELSE @, !.steps = @ + 1,
                               !.last = [op |-> slot, ok |-> r.ok, err |-> r.err,
                                         epoch |-> cell.epoch, before |-> ce.roi.center.epoch]]
    /\ UNCHANGED <<codecVars, hc, mg, rg, ax>>

InitBuild ==
    /\ CodecIdle
    /\ hc = NoHeaderCodec
    /\ mg = NoMerge
    /\ rg = NoRegion
    /\ ce = Building
    /\ ax = NoAxis

NextBuild ==
    \/ BuildWithEpoch
    \/ BuildWithCell

SpecBuild == InitBuild /\ [][NextBuild]_vars

\* C18: whatever the calls of with_epoch and of the methods that replace a
\* cell, starting from Cell3x3::default(), the nine cells of the
\* neighborhood have the same epoch, and a replacement by a cell of another
\* epoch is rejected with TemporalMismatch.
C18_OneEpoch ==
    (ce.phase = "build") =>
        /\ \A s, t \in Slots : ce.roi[s].epoch = ce.roi[t].epoch
        /\ (ce.last.op \in Slots /\ ce.last.epoch # ce.last.before) =>
               (~ce.last.ok /\ ce.last.err = "TemporalMismatch")
        /\ (ce.last.op \in Slots /\ ce.last.epoch = ce.last.before) => ce.last.ok

\* a cell was put in the western slot of a neighborhood of epoch 1, then a
\* cell of another epoch was rejected
C18_Witness ==
    /\ ce.phase = "build"
    /\ ce.roi.west = BlockCell(1, 1, 1)
    /\ ce.last.op \in Slots
    /\ ~ce.last.ok


(***************************************************************************)
(* An axis: Linspace::new(start, end, spacing), then quantize() and the    *)
(* iteration of the QuantizedLinspace.  The f64 values are counted in      *)
(* tenths of a degree and are whole or half degrees, which f64 holds       *)
(* exactly.  A Linspace can also be made without Linspace::new (its fields *)
(* are public, and From<(f64, f64, f64)> does not validate), so quantize() *)
(* is applied whatever Linspace::new returned.                             *)
(***************************************************************************)
AxisCoords == {-10, -5, 0, 5, 10}

AxisSpacings == {-10, -5, 0, 5, 10, 15}

MaxYield == 6

\* quantized.rs:46-56 and 58-68, for a whole or half number of degrees:
\* exponent 0 and the degrees, or exponent 1 and the tenths
AutoScaled(tenths) ==
    IF tenths % 10 = 0
    THEN [exponent |-> 0, value |-> tenths \div 10]
    ELSE [exponent |-> 1, value |-> tenths]

\* linspace.rs:46-53
QuantizedLinspace(ls) ==
    [ptr     |-> AutoScaled(ls.start),
     start   |-> AutoScaled(ls.start),
     end     |-> AutoScaled(ls.end),
     spacing |-> AutoScaled(ls.spacing)]

\* linspace.rs:17-26: the item returned (an Option as a set) and the iterator after
QuantizedLinspaceNext(self) ==
    IF self.ptr.value > self.end.value
    THEN [item |-> {}, self |-> self]
    ELSE [item |-> {self.ptr},
          self |-> [self EXCEPT !.ptr.value = @ + self.spacing.value]]

NewAxis(start, end, spacing) ==
    [phase |-> "new", ls |-> Linspace(start, end, spacing), ok |-> FALSE,
     it |-> QuantizedLinspace(Linspace(0, 0, 0)), yielded |-> <<>>]

\* linspace.rs:116-143
LinspaceNew ==
    /\ ax.phase = "new"
    /\ ax' = [ax EXCEPT !.phase = "made",
                        !.ok = LinspaceNewOk(ax.ls.start, ax.ls.end, ax.ls.spacing)]
    /\ UNCHANGED <<codecVars, hc, mg, rg, ce>>

\* linspace.rs:46-53
QuantizeAxis ==
    /\ ax.phase = "made"
    /\ ax' = [ax EXCEPT !.phase = "iter", !.it = QuantizedLinspace(ax.ls)]
    /\ UNCHANGED <<codecVars, hc, mg, rg, ce>>

\* linspace.rs:17-26: one call of next()
IterateAxis ==
    /\ ax.phase = "iter"
    /\ Len(ax.yielded) < MaxYield
    /\ LET r == QuantizedLinspaceNext(ax.it)
       IN  ax' = [ax EXCEPT !.phase = IF r.item = {} THEN "end" ELSE "iter",
                            !.it = r.self,
                            !.yielded = @ \o (IF r.item = {} THEN <<>> ELSE <<CHOOSE q \in r.item : TRUE>>)]
    /\ UNCHANGED <<codecVars, hc, mg, rg, ce>>

InitAxis ==
    /\ CodecIdle
    /\ hc = NoHeaderCodec
    /\ mg = NoMerge
    /\ rg = NoRegion
    /\ ce = NoCell
    /\ \E start \in AxisCoords, end \in AxisCoords, spacing \in AxisSpacings :
          ax = NewAxis(start, end, spacing)

NextAxis ==
    \/ LinspaceNew
    \/ QuantizeAxis
    \/ IterateAxis

SpecAxis == InitAxis /\ [][NextAxis]_vars

Abs(n) == IF n < 0 THEN -n ELSE n

\* end - start is a whole number of times the spacing
WholeSteps(ls) == ls.spacing # 0 /\ (ls.end - ls.start) % Abs(ls.spacing) = 0

\* C19: Linspace::new returns Ok exactly when start = end and spacing = 0, or
\* end - start is a whole number of times the spacing; an axis that starts
\* at 0 is accepted like another.
C19_LinspaceNew ==
    (ax.phase # "none" /\ ax.phase # "new") =>
        (ax.ok <=> ((ax.ls.start = ax.ls.end /\ ax.ls.spacing = 0) \/ WholeSteps(ax.ls)))

\* the axis goes from start to end by its spacing, or is a single point
WellFormed(ls) ==
    \/ ls.start = ls.end /\ ls.spacing = 0
    \/ WholeSteps(ls) /\ (ls.end - ls.start) \div ls.spacing > 0

\* start, start + spacing, ..., end
AxisValues(ls) ==
    IF ls.start = ls.end THEN <<ls.start>>
    ELSE [k \in 1..(((ls.end - ls.start) \div ls.spacing) + 1) |-> ls.start + (k - 1) * ls.spacing]

\* C20: the iteration of quantize() on an axis yields start, start +
\* spacing, ..., end, once each and in this order, and then ends, whether the
\* axis goes up or down and whatever the decimal exponents of its values.
C20_QuantizeYieldsAxis ==
    (ax.phase \in {"iter", "end"} /\ WellFormed(ax.ls)) =>
        /\ Len(ax.yielded) <= Len(AxisValues(ax.ls))
        /\ \A k \in 1..Len(ax.yielded) : QuantizedEq(ax.yielded[k], AutoScaled(AxisValues(ax.ls)[k]))
        /\ ax.phase = "end" => Len(ax.yielded) = Len(AxisValues(ax.ls))


(***************************************************************************)
(* The other methods of Linspace: nearest_lower, stretch_mut and           *)
(* resample_mut, on any Linspace (its fields are public).  The values are  *)
(* in tenths of a degree.  A factor is an f64 given by its sign bit and    *)
(* its magnitude, a whole number: -0.0 is the factor with the sign bit set *)
(* and the magnitude 0.                                                    *)
(***************************************************************************)
MaxLoop == 8

ProbePoints == {-15, -10, -7, -5, 0, 3, 5, 10, 15}

Factors == { [sign_negative |-> s, magnitude |-> m] : s \in BOOLEAN, m \in {0, 1, 2} }

\* the f64 product of a value by a factor
Times(value, factor) ==
    IF factor.sign_negative THEN -(value * factor.magnitude) ELSE value * factor.magnitude

\* linspace.rs:161-169: the loop, from the value start has after n rounds;
\* the Option is a set, and the call does not return when the loop goes on
\* for ever (more than MaxLoop rounds here)
RECURSIVE NearestLowerFrom(_, _, _, _)
NearestLowerFrom(self, start, p, n) ==
    IF n > MaxLoop THEN [returns |-> FALSE, value |-> {}]
    ELSE IF start < self.end
         THEN IF start > p
              THEN [returns |-> TRUE, value |-> {start - self.spacing}]
              ELSE NearestLowerFrom(self, start + self.spacing, p, n + 1)
         ELSE [returns |-> TRUE, value |-> {}]

\* linspace.rs:160-170
NearestLower(self, p) == NearestLowerFrom(self, self.start, p, 0)

LinspaceOk(ls) == [ok |-> TRUE, err |-> "", ls |-> ls]
LinspaceErr(err, ls) == [ok |-> FALSE, err |-> err, ls |-> ls]

\* linspace.rs:74-81; ls is the Linspace after the call
StretchMut(self, factor) ==
    IF factor.sign_negative
    THEN LinspaceErr("NegativeStretchFactor", self)
    ELSE LinspaceOk([self EXCEPT !.start = Times(@, factor), !.end = Times(@, factor)])

\* linspace.rs:97-103
ResampleMut(self, factor) ==
    IF factor.sign_negative
    THEN LinspaceErr("NegativeStretchFactor", self)
    ELSE LinspaceOk([self EXCEPT !.spacing = Times(@, factor)])

Measuring(ls) ==
    [phase |-> "ls", ls |-> ls, p |-> 0, nearest |-> [returns |-> TRUE, value |-> {}],
     factor |-> [sign_negative |-> FALSE, magnitude |-> 1], res |-> LinspaceOk(ls)]

\* ls.nearest_lower(p)
CallNearestLower ==
    /\ ax.phase = "ls"
    /\ \E p \in ProbePoints :
          ax' = [ax EXCEPT !.phase = "nearest", !.p = p, !.nearest = NearestLower(ax.ls, p)]
    /\ UNCHANGED <<codecVars, hc, mg, rg, ce>>

\* ls.stretch_mut(factor)
CallStretchMut ==
    /\ ax.phase = "ls"
    /\ \E factor \in Factors :
          ax' = [ax EXCEPT !.phase = "stretched", !.factor = factor,
                           !.res = StretchMut(ax.ls, factor)]
    /\ UNCHANGED <<codecVars, hc, mg, rg, ce>>

\* ls.resample_mut(factor)
CallResampleMut ==
    /\ ax.phase = "ls"
    /\ \E factor \in Factors :
          ax' = [ax EXCEPT !.phase = "resampled", !.factor = factor,
                           !.res = ResampleMut(ax.ls, factor)]
    /\ UNCHANGED <<codecVars, hc, mg, rg, ce>>

InitLinspace ==
    /\ CodecIdle
    /\ hc = NoHeaderCodec
    /\ mg = NoMerge
    /\ rg = NoRegion
    /\ ce = NoCell
    /\ \E start \in AxisCoords, end \in AxisCoords, spacing \in AxisSpacings :
          ax = Measuring(Linspace(start, end, spacing))

NextLinspace ==
    \/ CallNearestLower
    \/ CallStretchMut
    \/ CallResampleMut

SpecLinspace == InitLinspace /\ [][NextLinspace]_vars

\* the points of a well formed axis
GridPoints(ls) == { AxisValues(ls)[k] : k \in 1..Len(AxisValues(ls)) }

\* C21: on a well formed axis, ascending or descending, nearest_lower(p)
\* returns the largest point of the grid that is <= p when p lies between
\* the two ends of the axis (the ends included), and none when p lies
\* outside; what it returns is never outside the axis.
C21_NearestLower ==
    (ax.phase = "nearest" /\ WellFormed(ax.ls)) =>
        LET below == { g \in GridPoints(ax.ls) : g <= ax.p }
            inside == LinspaceMin(ax.ls) <= ax.p /\ ax.p <= LinspaceMax(ax.ls)
        IN  /\ ax.nearest.returns
            /\ inside => ax.nearest.value = { g \in below : \A h \in below : h <= g }
            /\ ~inside => ax.nearest.value = {}

\* the factor is <= 0
NonPositive(factor) == factor.sign_negative \/ factor.magnitude = 0

\* C22: stretch_mut(f) and resample_mut(f) fail with NegativeStretchFactor
\* for every f <= 0, zero included, and a call that fails leaves start, end
\* and spacing as they were.
C22_NonPositiveFactor ==
    (ax.phase \in {"stretched", "resampled"}) =>
        /\ NonPositive(ax.factor) => (~ax.res.ok /\ ax.res.err = "NegativeStretchFactor")
        /\ ~ax.res.ok => ax.res.ls = ax.ls


(***************************************************************************)
(* Eq, Ord and Hash of Quantized and of the QuantizedCoordinates built     *)
(* from it.  The hash of a value is what the Hasher makes of the sequence  *)
(* of fields written to it; two values hash alike when they write the same *)
(* sequence.                                                               *)
(***************************************************************************)
QuantizedValues == { [exponent |-> e, value |-> v] : e \in {0, 1, 2}, v \in {-10, -1, 0, 1, 10, 100} }

\* quantized.rs:30-34 and 38-42: the order of the real values, value / 10^exponent
QuantizedCmp(a, b) ==
    LET m == Min2(a.exponent, b.exponent)
        x == a.value * Pow10(b.exponent - m)
        y == b.value * Pow10(a.exponent - m)
    IN  IF x < y THEN "Less" ELSE IF x = y THEN "Equal" ELSE "Greater"

\* quantized.rs:14, derive(Hash): the exponent then the value are written
QuantizedHash(q) == <<q.exponent, q.value>>

\* coordinates.rs:9-18
QuantizedCoordinates(lat, long, alt) == [lat_ddeg |-> lat, long_ddeg |-> long, alt_km |-> alt]

\* coordinates.rs:7, derive(PartialEq): field by field
CoordinatesEq(a, b) ==
    /\ QuantizedEq(a.lat_ddeg, b.lat_ddeg)
    /\ QuantizedEq(a.long_ddeg, b.long_ddeg)
    /\ QuantizedEq(a.alt_km, b.alt_km)

\* coordinates.rs:7, derive(Hash): the fields in their order
CoordinatesHash(c) ==
    QuantizedHash(c.lat_ddeg) \o QuantizedHash(c.long_ddeg) \o QuantizedHash(c.alt_km)

Comparing(a, b) ==
    [phase |-> "q", a |-> a, b |-> b, eq |-> FALSE, cmp |-> "", hash_eq |-> FALSE]

\* a == b, a.cmp(&b) and the hashes of a and b
CompareQuantized ==
    /\ ax.phase = "q"
    /\ ax' = [ax EXCEPT !.phase = "quantized",
                        !.eq = QuantizedEq(ax.a, ax.b),
                        !.cmp = QuantizedCmp(ax.a, ax.b),
                        !.hash_eq = (QuantizedHash(ax.a) = QuantizedHash(ax.b))]
    /\ UNCHANGED <<codecVars, hc, mg, rg, ce>>

\* the same for the coordinates of latitude a and of latitude b, at one
\* longitude and one altitude
CompareCoordinates ==
    /\ ax.phase = "q"
    /\ \E long \in QuantizedValues, alt \in {[exponent |-> 0, value |-> 3]} :
          LET ca == QuantizedCoordinates(ax.a, long, alt)
              cb == QuantizedCoordinates(ax.b, long, alt)
          IN  ax' = [ax EXCEPT !.phase = "coordinates",
                               !.eq = CoordinatesEq(ca, cb),
                               !.cmp = QuantizedCmp(ax.a, ax.b),
                               !.hash_eq = (CoordinatesHash(ca) = CoordinatesHash(cb))]
    /\ UNCHANGED <<codecVars, hc, mg, rg, ce>>

InitQuantized ==
    /\ CodecIdle
    /\ hc = NoHeaderCodec
    /\ mg = NoMerge
    /\ rg = NoRegion
    /\ ce = NoCell
    /\ \E a \in QuantizedValues, b \in QuantizedValues : ax = Comparing(a, b)

NextQuantized ==
    \/ CompareQuantized
    \/ CompareCoordinates

SpecQuantized == InitQuantized /\ [][NextQuantized]_vars

\* a and b decode to the same real value
SameRealValue(a, b) ==
    a.value * Pow10(2 - a.exponent) = b.value * Pow10(2 - b.exponent)

\* C23: two Quantized that decode to the same real value, whatever their
\* exponents, compare equal, are ordered as equal and have the same hash,
\* and so have the coordinates built from them.
C23_EqOrdHashAgree ==
    (ax.phase \in {"quantized", "coordinates"} /\ SameRealValue(ax.a, ax.b)) =>
        (ax.eq /\ ax.cmp = "Equal" /\ ax.hash_eq)


(***************************************************************************)
(* The body of a file, read line after line by parse_record, with what     *)
(* was read kept beside the parser: the rows of the block under way (the   *)
(* latitude of each LAT/LON1/LON2/DLON/H line and the tokens that followed *)
(* it), the record as it was when the block began, and the parser as it    *)
(* was when the last line was read.  The longitude axis starts below 0, at *)
(* 0 or above 0; the file may end in the middle of a block.                *)
(***************************************************************************)
MaxBodyMaps == 2

MaxBodyTokens == 4

BodyHeaders ==
    { MkHeader(Linspace(1, 0, -1), lon, Linspace(3, 3, 0), -1) :
        lon \in { Linspace(-1, 0, 1), Linspace(0, 1, 1), Linspace(1, 2, 1) } }

BodyTokens == {IntToken(7), IntToken(9999), BadToken}

BodyGenInit ==
    [phase |-> "body", kind |-> "TEC", epoch |-> 0, rows |-> <<>>, maps |-> 0, ntoks |-> 0,
     before |-> EmptyRecord, pre |-> ParserInit(header)]

BodyStartOfMap ==
    /\ gen.phase \in {"body", "ended"}
    /\ gen.maps < MaxBodyMaps
    /\ \E kind \in MapKinds :
          Read(MarkerLine("START OF " \o kind \o " MAP"),
               [gen EXCEPT !.phase = "opened", !.kind = kind, !.maps = @ + 1, !.rows = <<>>,
                           !.before = ps.record, !.pre = ps])

BodyEpoch ==
    /\ gen.phase = "opened"
    /\ \E t \in Epochs :
          Read(NumLine("EPOCH OF CURRENT MAP", t),
               [gen EXCEPT !.phase = "rows", !.epoch = t, !.pre = ps])

BodyGridSpecs ==
    /\ gen.phase = "rows"
    /\ Len(gen.rows) < AxisLen(header.grid.latitude)
    /\ LET lat == AxisPoint(header.grid.latitude, Len(gen.rows))
       IN  Read(GridLine(lat, header.grid.longitude, header.grid.altitude.start),
                [gen EXCEPT !.rows = Append(@, [lat |-> lat, toks |-> <<>>]), !.pre = ps])

BodyData ==
    /\ gen.phase = "rows"
    /\ gen.rows # <<>>
    /\ gen.ntoks < MaxBodyTokens
    /\ \E tok \in BodyTokens :
          Read(DataLine(<<tok>>),
               [gen EXCEPT !.rows[Len(gen.rows)].toks = Append(@, tok), !.ntoks = @ + 1,
                           !.pre = ps])

BodyEndOfMap ==
    /\ gen.phase = "rows"
    /\ gen.rows # <<>>
    /\ Read(MarkerLine("END OF " \o gen.kind \o " MAP"),
            [gen EXCEPT !.phase = "ended", !.pre = ps])

BodyEndOfFile ==
    /\ gen.phase \in {"body", "rows", "ended"}
    /\ Read(MarkerLine("END OF FILE"), [gen EXCEPT !.phase = "eof", !.pre = ps])

InitBody ==
    /\ header \in BodyHeaders
    /\ gen = BodyGenInit
    /\ ps = ParserInit(header)
    /\ trail = NoTrail
    /\ fs = FormatIdle
    /\ out = <<>>
    /\ reparsed = EmptyRecord
    /\ hc = NoHeaderCodec
    /\ mg = NoMerge
    /\ rg = NoRegion
    /\ ce = NoCell
    /\ ax = NoAxis

NextBody ==
    \/ BodyStartOfMap
    \/ BodyEpoch
    \/ BodyGridSpecs
    \/ BodyData
    \/ BodyEndOfMap
    \/ BodyEndOfFile

SpecBody == InitBody /\ [][NextBody]_vars

\* an integer token that is not the sentinel
ValidToken(tok) == tok.ok /\ ~Contains9999(tok)

\* the block under way is over: its END marker was read, or END OF FILE
BlockOver(kind) ==
    /\ gen.kind = kind
    /\ gen.rows # <<>>
    /\ gen.phase \in {"ended", "eof"}

\* the longitude of the k-th token of a row, k from 0
TokenLongitude(k) == header.grid.longitude.start + k * header.grid.longitude.spacing

\* C24: when a TEC block is over (its END marker was read, or END OF FILE),
\* every row of the block that had a sample among the tokens of its grid
\* points has a sample in the record at its latitude and at the epoch of
\* the block.
C24_EveryRowReachesRecord ==
    BlockOver("TEC") =>
        \A r \in 1..Len(gen.rows) :
            (\E k \in 1..Len(gen.rows[r].toks) :
                 ValidToken(gen.rows[r].toks[k]) /\ TokenLongitude(k - 1) <= header.grid.longitude.end)
            => \E key \in DOMAIN ps.record : key.epoch = gen.epoch /\ key.lat = gen.rows[r].lat


\* C25: when the END marker of a TEC block is read, the k-th token after a
\* grid-spec line (k from 0, the 9999 tokens counted), if it is a sample and
\* its longitude is on the axis, is in the record at the longitude
\* lon_start + k * dlon, at the latitude and altitude of that grid-spec line
\* and at the epoch of the block: the first token of a row is at lon_start.
C25_TokenLongitude ==
    (BlockOver("TEC") /\ gen.phase = "ended") =>
        \A r \in 1..Len(gen.rows) : \A k \in 1..Len(gen.rows[r].toks) :
            LET tok == gen.rows[r].toks[k]
                key == MkKey(gen.epoch, gen.rows[r].lat, TokenLongitude(k - 1),
                             header.grid.altitude.start)
            IN  (ValidToken(tok) /\ TokenLongitude(k - 1) <= header.grid.longitude.end) =>
                    /\ key \in DOMAIN ps.record
                    /\ TecEq(ps.record[key], FromQuantized(tok.v, header.exponent))

\* C26: every key of the record has its longitude between lon_start and
\* lon_end of the grid-spec lines, whatever the number of tokens of the rows.
C26_LongitudeInRange ==
    \A key \in DOMAIN ps.record :
        /\ header.grid.longitude.start <= key.lon
        /\ key.lon <= header.grid.longitude.end

\* C27: from the START marker of an RMS or HEIGHT block on, the record has
\* the keys it had and every sample has the TECu and the height it had; an
\* RMS token changes at most the RMS of the sample at its key, and a HEIGHT
\* block leaves the record as it was.
C27_RmsHeightFrame ==
    (gen.phase # "body" /\ gen.kind \in {"RMS", "HEIGHT"}) =>
        /\ DOMAIN ps.record = DOMAIN gen.before
        /\ \A key \in DOMAIN ps.record :
              /\ ps.record[key].tecu = gen.before[key].tecu
              /\ ps.record[key].height = gen.before[key].height
        /\ \A i \in 1..Len(trail.flushed) :
              LET e == trail.flushed[i]
              IN  e.key \notin DOMAIN gen.before => e.unchanged
        /\ gen.kind = "HEIGHT" => ps.record = gen.before

\* an RMS block is over, one of its tokens has set the RMS of a sample and
\* another one found no sample at its key
C27_Witness ==
    /\ gen.kind = "RMS"
    /\ gen.phase = "ended"
    /\ \E key \in DOMAIN ps.record : ps.record[key].rms # {}
    /\ \E i \in 1..Len(trail.flushed) :
          /\ ValidToken(trail.flushed[i].tok)
          /\ trail.flushed[i].in_range
          /\ trail.flushed[i].key \notin DOMAIN ps.record

\* the tokens with an integer in the place of every token that is none
AllValid(toks) == [i \in 1..Len(toks) |-> IF toks[i].ok THEN toks[i] ELSE IntToken(7)]

\* what the flush of the END OF TEC MAP line just read would have done had
\* every token been an integer
FlushedIfValid ==
    FlushLog(gen.pre, "TEC", <<gen.pre.long_ptr, gen.pre.record>>, AllValid(gen.pre.epoch_buf),
             [i \in 1..Len(gen.pre.epoch_buf) |-> gen.pre.exponent])

\* C28: a token that is no integer does not stop the parsing; in the flush
\* of a TEC block it inserts nothing, and every other token of the row meets
\* the key, and stores the sample, that it would have met and stored had
\* the malformed tokens been integers.
C28_MalformedTokenSkipped ==
    (gen.phase = "ended" /\ gen.kind = "TEC") =>
        /\ ~ps.eos
        /\ Len(trail.flushed) = Len(gen.pre.epoch_buf)
        /\ \A i \in 1..Len(trail.flushed) :
              LET e == trail.flushed[i]
              IN  IF ValidToken(e.tok)
                  THEN e.key = FlushedIfValid[i].key /\ e.stored = FlushedIfValid[i].stored
                  ELSE IF e.tok.ok
                  THEN e.key = FlushedIfValid[i].key /\ e.unchanged
                  ELSE e.unchanged

\* a token that is no integer was met on the axis, and a sample that
\* follows it in the row was stored
C28_Witness ==
    /\ gen.phase = "ended"
    /\ gen.kind = "TEC"
    /\ \E i, j \in 1..Len(trail.flushed) :
          /\ i < j
          /\ ~trail.flushed[i].tok.ok
          /\ trail.flushed[i].in_range
          /\ ValidToken(trail.flushed[j].tok)
          /\ ~trail.flushed[j].unchanged


(***************************************************************************)
(* map_cell_iter against the record, in the states of SpecCells where the  *)
(* iterator has been gone through.                                         *)
(***************************************************************************)
\* the pairs of adjacent points of an axis, in the order of the axis
AdjacentPairs(ls) ==
    { <<AxisPoint(ls, i), AxisPoint(ls, i + 1)>> : i \in 0..(AxisLen(ls) - 2) }

\* the four corner keys of the cell of an epoch and of two pairs of points
CornerKeys(hd, epoch, lats, longs) ==
    { MkKey(epoch, lat, lon, hd.grid.altitude.start) :
        lat \in {lats[1], lats[2]}, lon \in {longs[1], longs[2]} }

\* the corners of a cell
Corners(cell) == {cell.north_east, cell.north_west, cell.south_east, cell.south_west}

\* the cell is the one of the epoch and of the two pairs of points
IsCellOf(cell, epoch, lats, longs) ==
    /\ cell.epoch = epoch
    /\ {c.point : c \in Corners(cell)} =
          { Point(lon, lat) : lon \in {longs[1], longs[2]}, lat \in {lats[1], lats[2]} }

\* C29: map_cell_iter yields a cell for an epoch, a pair of adjacent
\* latitudes and a pair of adjacent longitudes exactly when the record holds
\* the four corner keys, and each corner of a yielded cell carries the TEC
\* the record stores at the corner's own latitude and longitude.
C29_MapCellIter ==
    rg.phase = "collected" =>
        LET hd == rg.file.header
            yielded == {rg.cells[i] : i \in 1..Len(rg.cells)}
        IN  /\ \A epoch \in {hd.epoch_of_first_map, hd.epoch_of_last_map},
                  lats \in AdjacentPairs(hd.grid.latitude),
                  longs \in AdjacentPairs(hd.grid.longitude) :
                    (\E cell \in yielded : IsCellOf(cell, epoch, lats, longs))
                        <=> (CornerKeys(hd, epoch, lats, longs) \subseteq DOMAIN rg.file.record)
            /\ \A cell \in yielded : \A c \in Corners(cell) :
                  LET k == MkKey(cell.epoch, c.point.y, c.point.x, hd.grid.altitude.start)
                  IN  k \in DOMAIN rg.file.record /\ TecEq(rg.file.record[k], c.tec)

\* the same with the latitude axis in ascending order only
C29Ascending ==
    rg.file.header.grid.latitude.spacing > 0 => C29_MapCellIter

\* the same for the files whose record holds every sample
C29Full ==
    (rg.file.header.grid.latitude.spacing > 0 /\ rg.file.record = FullRecord(rg.file.header))
        => C29_MapCellIter


(***************************************************************************)
(* Record::format alone, on a record that has been parsed: the headers     *)
(* have a latitude axis in descending order, in ascending order or of one  *)
(* row, and a longitude axis of three columns or of one column, all of     *)
(* them accepted by Linspace::new.  The steps are the ones of Spec; a step *)
(* that can be taken is taken (the function runs to its end without        *)
(* waiting for anything), which is the fairness of SpecFormat.             *)
(***************************************************************************)
FormatAxes == { Linspace(2, -2, -2), Linspace(-2, 2, 2), Linspace(1, 1, 0) }

FormatHeaders ==
    { MkHeader(lat, lon, Linspace(3, 3, 0), -1) :
        lat \in {ls \in FormatAxes : LinspaceNewOk(ls.start, ls.end, ls.spacing)},
        lon \in {ls \in FormatAxes : ls.spacing >= 0 /\ LinspaceNewOk(ls.start, ls.end, ls.spacing)} }

\* no sample, one sample at the first point of the grid, the same with an RMS
FormatRecords(hd) ==
    LET key == MkKey(1, hd.grid.latitude.start, hd.grid.longitude.start, hd.grid.altitude.start)
        tec == [tecu |-> [exponent |-> -1, value |-> 7], rms |-> {}, height |-> {}]
    IN  { EmptyRecord,
          key :> tec,
          key :> [tec EXCEPT !.rms = {[exponent |-> -1, value |-> 5]}] }

InitFormat ==
    /\ header \in FormatHeaders
    /\ gen = [phase |-> "format", beyond |-> 0]
    /\ \E rec \in FormatRecords(header) :
          ps = [ParserInit(header) EXCEPT !.record = rec, !.eos = TRUE]
    /\ trail = NoTrail
    /\ fs = FormatIdle
    /\ out = <<>>
    /\ reparsed = EmptyRecord
    /\ hc = NoHeaderCodec
    /\ mg = NoMerge
    /\ rg = NoRegion
    /\ ce = NoCell
    /\ ax = NoAxis

\* A pass of a loop beyond the rows and the tokens that are followed.  What
\* it writes is not kept, and the pointer of the loop is kept where it was as
\* the least of the values it takes from there on: the pass is followed only
\* when the spacing does not bring the pointer towards the bound of the test
\* (record/formatting.rs:51 and 106, 72 and 98), so the test has the same
\* outcome for all of them.  gen.beyond is the parity of these passes.
Beyond(f) ==
    /\ fs' = f
    /\ gen' = [gen EXCEPT !.beyond = 1 - @]
    /\ UNCHANGED <<header, ps, trail, out, reparsed, hc, mg, rg, ce, ax>>

\* record/formatting.rs:51-70, past MaxFormatRows rows
FormatRowBeyond ==
    /\ fs.phase = "lat"
    /\ LatitudeLoopRuns(header, fs)
    /\ fs.rows >= MaxFormatRows
    /\ header.grid.latitude.spacing >= 0
    /\ Beyond(FormatRowBegin(header, fs))

\* record/formatting.rs:73-98, past MaxRowTokens tokens
FormatSampleBeyond ==
    /\ fs.phase = "lon"
    /\ LongitudeLoopRuns(header, fs)
    /\ Len(fs.row) >= MaxRowTokens
    /\ header.grid.longitude.spacing <= 0
    /\ Beyond([FormatToken(header, ps.record, fs) EXCEPT !.row = fs.row,
                                                         !.longitude_ptr = fs.longitude_ptr])

\* record/formatting.rs:101-106, past MaxFormatRows rows
FormatEndOfRowBeyond ==
    /\ fs.phase = "lon"
    /\ ~LongitudeLoopRuns(header, fs)
    /\ fs.rows >= MaxFormatRows
    /\ Beyond([FormatRowEnd(header, fs) EXCEPT !.rows = fs.rows,
                                               !.latitude_ptr = fs.latitude_ptr])

NextFormat ==
    \/ FormatBegin
    \/ FormatMap
    \/ FormatRow
    \/ FormatSample
    \/ (fs.rows < MaxFormatRows /\ FormatEndOfRow)
    \/ FormatEndOfMap
    \/ FormatEndOfFile
    \/ FormatRowBeyond
    \/ FormatSampleBeyond
    \/ FormatEndOfRowBeyond

SpecFormat == InitFormat /\ [][NextFormat]_vars /\ WF_vars(NextFormat)

\* Record::format has returned and the last line it wrote is END OF FILE
FormatTerminated ==
    /\ fs.phase = "done"
    /\ out # <<>>
    /\ out[Len(out)] = MarkerLine("END OF FILE")

\* C30: Record::format terminates for every header whose latitude and
\* longitude axes are accepted by Linspace::new (latitude in descending or
\* in ascending order, grids of one row or of one column with a spacing of
\* zero included), and the last line it has written is END OF FILE.
C30_FormatTerminates == <>FormatTerminated

\* the same for the grids with a latitude axis in descending order and a
\* longitude axis in ascending order
C30Descending ==
    (header.grid.latitude.spacing < 0 /\ header.grid.longitude.spacing > 0) => <>FormatTerminated

\* the same for the records without a sample
C30Empty == (ps.record = EmptyRecord) => <>FormatTerminated

\* no state is left without a step before Record::format has returned: the
\* rows and the tokens that are followed do not stop it
C30NeverStopped == fs.phase # "done" => ENABLED NextFormat

====
